---- MODULE Spec2Model ----
(***************************************************************************)
(* The AILANG front end: the type-fusion recognizer and the lexer of       *)
(* lexer.py, and the recursive-descent parser of parser.py.                *)
(*                                                                         *)
(* Source text and token values are strings; a character is a string of    *)
(* length one.  Each component is one record-valued variable holding the   *)
(* fields of the Python object it models.                                  *)
(***************************************************************************)
EXTENDS Integers, Sequences, FiniteSets, TLC

VARIABLES
    fusion,   \* a TypeFusionRecognizer under test: its sets, the candidate, the calls made
    lexer,    \* a Lexer instance: source, cursor, line/column, tokens, diagnostics
    parser,   \* a Parser instance: tokens, cursor, context stack, declarations
    library_functions,  \* the module-level dict of libraryholding/parser.py
    suspended,  \* the Lexer and Parser of a second pipeline while the first one runs
    published   \* the diagnostics lists did_open has handed to publish_diagnostics

vars ==
    <<fusion, lexer, parser, library_functions, suspended, published>>

(***************************************************************************)
(* Strings                                                                 *)
(***************************************************************************)

\* s[i] of Python for a 1-based index inside the string
CharAt(s, i) ==
    SubSeq(s, i, i)

\* s[n:] of Python
Drop(s, n) ==
    SubSeq(s, n + 1, Len(s))

\* s.startswith(p)
StartsWith(s, p) ==
    /\ Len(p) <= Len(s)
    /\ SubSeq(s, 1, Len(p)) = p

\* c in s, for a character c
Contains(s, c) ==
    \E i \in 1..Len(s) : CharAt(s, i) = c

\* index of the first occurrence of the character c in s (0 when absent)
IndexOf(s, c) ==
    IF Contains(s, c)
    THEN CHOOSE i \in 1..Len(s) :
             /\ CharAt(s, i) = c
             /\ \A j \in 1..(i - 1) : CharAt(s, j) # c
    ELSE 0

RECURSIVE Split(_, _)
\* s.split(c): the pieces between the occurrences of c, empty pieces kept
Split(s, c) ==
    IF Contains(s, c)
    THEN <<SubSeq(s, 1, IndexOf(s, c) - 1)>> \o Split(Drop(s, IndexOf(s, c)), c)
    ELSE <<s>>

\* number of occurrences of the character c in s
Count(s, c) ==
    Cardinality({i \in 1..Len(s) : CharAt(s, i) = c})

RECURSIVE Concat(_)
\* the concatenation of a sequence of strings
Concat(ss) ==
    IF ss = <<>> THEN "" ELSE Head(ss) \o Concat(Tail(ss))

RECURSIVE Join(_, _)
\* sep.join(parts) for a non-empty list of parts
Join(parts, sep) ==
    IF Len(parts) = 1 THEN parts[1]
    ELSE parts[1] \o sep \o Join(Tail(parts), sep)

\* all sequences over S of length at most n
SeqsUpTo(S, n) ==
    UNION {[1..k -> S] : k \in 0..n}

LowerLetters ==
    {"a", "b", "c", "d", "e", "f", "g", "h", "i", "j", "k", "l", "m",
     "n", "o", "p", "q", "r", "s", "t", "u", "v", "w", "x", "y", "z"}

UpperLetters ==
    {"A", "B", "C", "D", "E", "F", "G", "H", "I", "J", "K", "L", "M",
     "N", "O", "P", "Q", "R", "S", "T", "U", "V", "W", "X", "Y", "Z"}

DigitChars ==
    {"0", "1", "2", "3", "4", "5", "6", "7", "8", "9"}

\* str.isalpha(), str.isdigit(), str.isalnum() on one ASCII character
isalpha(c) ==
    c \in LowerLetters \cup UpperLetters

isdigit(c) ==
    c \in DigitChars

isalnum(c) ==
    isalpha(c) \/ isdigit(c)

(***************************************************************************)
(* TypeFusionRecognizer                                                    *)
(***************************************************************************)

\* the operations with one more, "AddU", which makes "AddUInt8" cut in two ways
operations_with_AddU ==
    {"Add", "Subtract", "Multiply", "Divide", "Power", "Modulo", "VectorDot", "VectorCross",
     "VectorAdd", "VectorSubtract", "MatrixMultiply", "MatrixAdd", "MatrixSubtract",
     "MatrixInvert", "MemoryCopy", "MemorySet", "MemoryCompare", "PortRead", "PortWrite",
     "RegisterRead", "RegisterWrite", "AtomicAdd", "AtomicSubtract", "AtomicCompareSwap",
     "CacheFlush", "TLBInvalidate", "PageTableMap", "AddU"}

\* TypeFusionRecognizer.__init__: self.operations
operations ==
    {"Add", "Subtract", "Multiply", "Divide", "Power", "Modulo", "VectorDot", "VectorCross",
     "VectorAdd", "VectorSubtract", "MatrixMultiply", "MatrixAdd", "MatrixSubtract",
     "MatrixInvert", "MemoryCopy", "MemorySet", "MemoryCompare", "PortRead", "PortWrite",
     "RegisterRead", "RegisterWrite", "AtomicAdd", "AtomicSubtract", "AtomicCompareSwap",
     "CacheFlush", "TLBInvalidate", "PageTableMap"}

types ==
    {"Int8", "Int16", "Int32", "Int64", "Int128", "UInt8", "UInt16", "UInt32", "UInt64",
     "UInt128", "Float16", "Float32", "Float64", "Float128", "Bool", "Char", "Address",
     "Pointer"}

speed_modifiers ==
    {"Fast", "Precise", "Approximate"}

parallel_modifiers ==
    {"SIMD", "Parallel", "Sequential", "Vectorized", "Unroll2", "Unroll4", "Unroll8"}

memory_modifiers ==
    {"Aligned", "Aligned16", "Aligned32", "Aligned64", "Cached", "Temporal", "Volatile"}

safety_modifiers ==
    {"Checked", "Unchecked", "Saturating", "Throwing"}

algorithm_modifiers ==
    {"Blocked", "Recursive", "Iterative", "Streaming"}

pool_types ==
    {"Fixed", "Dynamic", "Temporal"}

\* TypeFusionRecognizer.__init__: the fields of a new recognizer
NewRecognizer ==
    [operations |-> operations,
     types |-> types,
     speed_modifiers |-> speed_modifiers,
     parallel_modifiers |-> parallel_modifiers,
     memory_modifiers |-> memory_modifiers,
     safety_modifiers |-> safety_modifiers,
     algorithm_modifiers |-> algorithm_modifiers,
     all_modifiers |-> speed_modifiers \cup parallel_modifiers \cup memory_modifiers
                         \cup safety_modifiers \cup algorithm_modifiers,
     pool_types |-> pool_types]

\* identifier.split('+', 1): the base and the modifier string
FusionBase(ident) ==
    IF Contains(ident, "+") THEN SubSeq(ident, 1, IndexOf(ident, "+") - 1) ELSE ident

FusionModifiersStr(ident) ==
    IF Contains(ident, "+") THEN Drop(ident, IndexOf(ident, "+")) ELSE ""

\* validate_modifiers: at most two modifiers, each one known; no modifier string is valid
validate_modifiers(r, modifiers_str) ==
    IF modifiers_str = "" THEN TRUE
    ELSE LET modifiers == Split(modifiers_str, "+")
         IN  IF Len(modifiers) > 2 THEN FALSE
             ELSE \A i \in 1..Len(modifiers) : modifiers[i] \in r.all_modifiers

\* the pool types the loop of is_pool_fusion / get_fusion_components returns on
PoolMatches(r, base) ==
    {pool_type \in r.pool_types :
        /\ StartsWith(base, pool_type \o "Pool")
        /\ Drop(base, Len(pool_type \o "Pool")) \in r.types}

\* the operations the loop of is_operation_fusion / get_fusion_components returns on
OperationMatches(r, base) ==
    {operation \in r.operations :
        /\ StartsWith(base, operation)
        /\ Drop(base, Len(operation)) \in r.types}

\* is_pool_fusion: the loop runs over a set, whose order Python does not fix; it returns
\* at the first matching pool type it meets. The results over all iteration orders.
is_pool_fusion(r, ident) ==
    IF PoolMatches(r, FusionBase(ident)) = {} THEN {FALSE}
    ELSE {validate_modifiers(r, FusionModifiersStr(ident)) :
              pool_type \in PoolMatches(r, FusionBase(ident))}

\* is_operation_fusion: likewise over the set of operations
is_operation_fusion(r, ident) ==
    IF OperationMatches(r, FusionBase(ident)) = {} THEN {FALSE}
    ELSE {validate_modifiers(r, FusionModifiersStr(ident)) :
              operation \in OperationMatches(r, FusionBase(ident))}

\* is_valid_fusion_pattern: pool fusion, else operation fusion (the possible results)
is_valid_fusion_pattern(r, ident) ==
    {IF p THEN TRUE ELSE o : p \in is_pool_fusion(r, ident), o \in is_operation_fusion(r, ident)}

\* get_fusion_components: the decompositions it can return. A key the Python dict
\* does not hold is the empty string here.
get_fusion_components(r, ident) ==
    LET base == FusionBase(ident)
        modifiers == IF Contains(ident, "+")
                     THEN Split(FusionModifiersStr(ident), "+") ELSE <<>>
        pools == PoolMatches(r, base)
        ops == OperationMatches(r, base)
    IN  IF pools # {}
        THEN {[base |-> base, modifiers |-> modifiers, pattern |-> "pool",
               pool_type |-> pool_type, operation |-> "",
               data_type |-> Drop(base, Len(pool_type \o "Pool"))] : pool_type \in pools}
        ELSE IF ops # {}
        THEN {[base |-> base, modifiers |-> modifiers, pattern |-> "operation",
               pool_type |-> "", operation |-> operation,
               data_type |-> Drop(base, Len(operation))] : operation \in ops}
        ELSE {[base |-> base, modifiers |-> modifiers, pattern |-> "unknown",
               pool_type |-> "", operation |-> "", data_type |-> ""]}

(***************************************************************************)
(* Lexer                                                                   *)
(*                                                                         *)
(* The repository holds two copies of the lexer: lexer.py ("active") and   *)
(* libraryholding/lexer.py ("holding").  The field `copy` of the lexer     *)
(* record says which one an instance is; the operators below follow the    *)
(* active copy and branch on `copy` where the holding copy differs.        *)
(***************************************************************************)

\* Python's None, as the value of current_char()/peek_char() at the end of the source
\* and as the value of the EOF token; it is no character
None ==
    "None"

keywords ==
    {<<"RunTask", "RUNTASK">>, <<"PrintMessage", "PRINTMESSAGE">>, <<"ReturnValue", "RETURNVALUE">>,
     <<"IfCondition", "IFCONDITION">>, <<"ThenBlock", "THENBLOCK">>, <<"ElseBlock", "ELSEBLOCK">>,
     <<"ChoosePath", "CHOOSEPATH">>, <<"CaseOption", "CASEOPTION">>,
     <<"DefaultOption", "DEFAULTOPTION">>, <<"WhileLoop", "WHILELOOP">>,
     <<"UntilCondition", "UNTILCONDITION">>, <<"ForEvery", "FOREVERY">>, <<"in", "IN">>,
     <<"TryBlock", "TRYBLOCK">>, <<"CatchError", "CATCHERROR">>, <<"FinallyBlock", "FINALLYBLOCK">>,
     <<"SendMessage", "SENDMESSAGE">>, <<"ReceiveMessage", "RECEIVEMESSAGE">>,
     <<"EveryInterval", "EVERYINTERVAL">>, <<"BreakLoop", "BREAKLOOP">>,
     <<"HaltProgram", "HALTPROGRAM">>, <<"ContinueLoop", "CONTINUELOOP">>,
     <<"FixedPool", "FIXEDPOOL">>, <<"DynamicPool", "DYNAMICPOOL">>,
     <<"TemporalPool", "TEMPORALPOOL">>, <<"NeuralPool", "NEURALPOOL">>,
     <<"KernelPool", "KERNELPOOL">>, <<"ActorPool", "ACTORPOOL">>,
     <<"SecurityPool", "SECURITYPOOL">>, <<"ConstrainedPool", "CONSTRAINEDPOOL">>,
     <<"FilePool", "FILEPOOL">>, <<"SubPool", "SUBPOOL">>, <<"Initialize", "INITIALIZE">>,
     <<"CanChange", "CANCHANGE">>, <<"CanBeNull", "CANBENULL">>, <<"Range", "RANGE">>,
     <<"MaximumLength", "MAXIMUMLENGTH">>, <<"MinimumLength", "MINIMUMLENGTH">>,
     <<"ElementType", "ELEMENTTYPE">>, <<"Where", "WHERE">>, <<"Add", "ADD">>,
     <<"Subtract", "SUBTRACT">>, <<"Multiply", "MULTIPLY">>, <<"Divide", "DIVIDE">>,
     <<"Power", "POWER">>, <<"Modulo", "MODULO">>, <<"SquareRoot", "SQUAREROOT">>,
     <<"AbsoluteValue", "ABSOLUTEVALUE">>, <<"GreaterThan", "GREATERTHAN">>,
     <<"LessThan", "LESSTHAN">>, <<"GreaterEqual", "GREATEREQUAL">>, <<"LessEqual", "LESSEQUAL">>,
     <<"EqualTo", "EQUALTO">>, <<"NotEqual", "NOTEQUAL">>, <<"And", "AND">>, <<"Or", "OR">>,
     <<"Not", "NOT">>, <<"Xor", "XOR">>, <<"Implies", "IMPLIES">>, <<"BitwiseAnd", "BITWISEAND">>,
     <<"BitwiseOr", "BITWISEOR">>, <<"BitwiseXor", "BITWISEXOR">>, <<"BitwiseNot", "BITWISENOT">>,
     <<"LeftShift", "LEFTSHIFT">>, <<"RightShift", "RIGHTSHIFT">>, <<"Function", "FUNCTION">>,
     <<"Lambda", "LAMBDA">>, <<"Apply", "APPLY">>, <<"Combinator", "COMBINATOR">>,
     <<"Input", "INPUT">>, <<"Output", "OUTPUT">>, <<"Body", "BODY">>, <<"Curry", "CURRY">>,
     <<"Uncurry", "UNCURRY">>, <<"Compose", "COMPOSE">>, <<"Integer", "INTEGER">>,
     <<"FloatingPoint", "FLOATINGPOINT">>, <<"Text", "TEXT">>, <<"Boolean", "BOOLEAN">>,
     <<"Address", "ADDRESS">>, <<"Array", "ARRAY">>, <<"Map", "MAP">>, <<"Tuple", "TUPLE">>,
     <<"Record", "RECORD">>, <<"OptionalType", "OPTIONALTYPE">>,
     <<"ConstrainedType", "CONSTRAINEDTYPE">>, <<"Any", "ANY">>, <<"Void", "VOID">>,
     <<"MacroBlock", "MACROBLOCK">>, <<"Macro", "MACRO">>, <<"RunMacro", "RUNMACRO">>,
     <<"ExpandMacro", "EXPANDMACRO">>, <<"SecurityContext", "SECURITYCONTEXT">>,
     <<"WithSecurity", "WITHSECURITY">>, <<"AllowedOperations", "ALLOWEDOPERATIONS">>,
     <<"DeniedOperations", "DENIEDOPERATIONS">>, <<"MemoryLimit", "MEMORYLIMIT">>,
     <<"CPUQuota", "CPUQUOTA">>, <<"Level", "LEVEL">>, <<"Hardware", "HARDWARE">>,
     <<"Syscall", "SYSCALL">>, <<"Interrupt", "INTERRUPT">>, <<"Register", "REGISTER">>,
     <<"Memory", "MEMORY">>, <<"PhysicalAddress", "PHYSICALADDRESS">>,
     <<"VirtualAddress", "VIRTUALADDRESS">>, <<"Flags", "FLAGS">>, <<"SubRoutine", "SUBROUTINE">>,
     <<"LibraryImport", "LIBRARYIMPORT">>, <<"LoopMain", "LOOPMAIN">>, <<"LoopActor", "LOOPACTOR">>,
     <<"LoopStart", "LOOPSTART">>, <<"LoopEnd", "LOOPEND">>, <<"LoopShadow", "LOOPSHADOW">>,
     <<"True", "TRUE">>, <<"False", "FALSE">>, <<"Null", "NULL">>, <<"Automatic", "AUTOMATIC">>,
     <<"Unlimited", "UNLIMITED">>, <<"Constant", "CONSTANT">>, <<"PI", "PI">>, <<"E", "E">>,
     <<"PHI", "PHI">>, <<"Bytes", "BYTES">>, <<"Kilobytes", "KILOBYTES">>,
     <<"Megabytes", "MEGABYTES">>, <<"Gigabytes", "GIGABYTES">>, <<"Seconds", "SECONDS">>,
     <<"Milliseconds", "MILLISECONDS">>, <<"Microseconds", "MICROSECONDS">>,
     <<"Percent", "PERCENT">>, <<"ReadInput", "READINPUT">>,
     <<"ReadInputNumber", "READINPUTNUMBER">>, <<"GetUserChoice", "GETUSERCHOICE">>,
     <<"ReadKey", "READKEY">>, <<"StringEquals", "STRINGEQUALS">>,
     <<"StringContains", "STRINGCONTAINS">>, <<"StringStartsWith", "STRINGSTARTSWITH">>,
     <<"StringEndsWith", "STRINGENDSWITH">>, <<"StringCompare", "STRINGCOMPARE">>,
     <<"StringConcat", "STRINGCONCAT">>, <<"StringLength", "STRINGLENGTH">>,
     <<"StringSubstring", "STRINGSUBSTRING">>, <<"StringToUpper", "STRINGTOUPPER">>,
     <<"StringToLower", "STRINGTOLOWER">>, <<"StringTrim", "STRINGTRIM">>,
     <<"StringReplace", "STRINGREPLACE">>, <<"StringToString", "STRINGTOSTRING">>,
     <<"NumberToString", "NUMBERTOSTRING">>, <<"StringToNumber", "STRINGTONUMBER">>,
     <<"OpenFile", "OPENFILE">>, <<"CloseFile", "CLOSEFILE">>, <<"ReadFile", "READFILE">>,
     <<"WriteFile", "WRITEFILE">>, <<"CreateFile", "CREATEFILE">>, <<"DeleteFile", "DELETEFILE">>,
     <<"ReadLine", "READLINE">>, <<"WriteLine", "WRITELINE">>, <<"ReadTextFile", "READTEXTFILE">>,
     <<"WriteTextFile", "WRITETEXTFILE">>, <<"AppendTextFile", "APPENDTEXTFILE">>,
     <<"ReadBinaryFile", "READBINARYFILE">>, <<"WriteBinaryFile", "WRITEBINARYFILE">>,
     <<"AppendBinaryFile", "APPENDBINARYFILE">>, <<"FileExists", "FILEEXISTS">>,
     <<"GetFileSize", "GETFILESIZE">>, <<"GetFileDate", "GETFILEDATE">>,
     <<"SetFileDate", "SETFILEDATE">>, <<"GetFilePermissions", "GETFILEPERMISSIONS">>,
     <<"SetFilePermissions", "SETFILEPERMISSIONS">>, <<"SeekPosition", "SEEKPOSITION">>,
     <<"GetPosition", "GETPOSITION">>, <<"Rewind", "REWIND">>, <<"CopyFile", "COPYFILE">>,
     <<"MoveFile", "MOVEFILE">>, <<"RenameFile", "RENAMEFILE">>, <<"FlushFile", "FLUSHFILE">>,
     <<"LockFile", "LOCKFILE">>, <<"UnlockFile", "UNLOCKFILE">>,
     <<"CreateDirectory", "CREATEDIRECTORY">>, <<"DeleteDirectory", "DELETEDIRECTORY">>,
     <<"ListDirectory", "LISTDIRECTORY">>, <<"DirectoryExists", "DIRECTORYEXISTS">>,
     <<"GetWorkingDirectory", "GETWORKINGDIRECTORY">>,
     <<"SetWorkingDirectory", "SETWORKINGDIRECTORY">>, <<"BufferedRead", "BUFFEREDREAD">>,
     <<"BufferedWrite", "BUFFEREDWRITE">>, <<"SetBufferSize", "SETBUFFERSIZE">>,
     <<"FlushBuffers", "FLUSHBUFFERS">>, <<"Pointer", "POINTER">>, <<"Dereference", "DEREFERENCE">>,
     <<"AddressOf", "ADDRESSOF">>, <<"SizeOf", "SIZEOF">>, <<"Allocate", "ALLOCATE">>,
     <<"Deallocate", "DEALLOCATE">>, <<"MemoryCopy", "MEMORYCOPY">>, <<"MemorySet", "MEMORYSET">>,
     <<"MemoryCompare", "MEMORYCOMPARE">>, <<"HardwareRegister", "HARDWAREREGISTER">>,
     <<"ControlRegister", "CONTROLREGISTER">>, <<"SegmentRegister", "SEGMENTREGISTER">>,
     <<"FlagsRegister", "FLAGSREGISTER">>, <<"ModelSpecificRegister", "MODELSPECIFICREGISTER">>,
     <<"PortRead", "PORTREAD">>, <<"PortWrite", "PORTWRITE">>, <<"PortReadByte", "PORTREADBYTE">>,
     <<"PortWriteByte", "PORTWRITEBYTE">>, <<"PortReadWord", "PORTREADWORD">>,
     <<"PortWriteWord", "PORTWRITEWORD">>, <<"PortReadDWord", "PORTREADDWORD">>,
     <<"PortWriteDWord", "PORTWRITEDWORD">>, <<"InterruptHandler", "INTERRUPTHANDLER">>,
     <<"ExceptionHandler", "EXCEPTIONHANDLER">>, <<"EnableInterrupts", "ENABLEINTERRUPTS">>,
     <<"DisableInterrupts", "DISABLEINTERRUPTS">>, <<"Halt", "HALT">>, <<"Wait", "WAIT">>,
     <<"TriggerSoftwareInterrupt", "TRIGGERSOFTWAREINTERRUPT">>,
     <<"InterruptVector", "INTERRUPTVECTOR">>, <<"AtomicRead", "ATOMICREAD">>,
     <<"AtomicWrite", "ATOMICWRITE">>, <<"AtomicAdd", "ATOMICADD">>,
     <<"AtomicSubtract", "ATOMICSUBTRACT">>, <<"AtomicCompareSwap", "ATOMICCOMPARESWAP">>,
     <<"AtomicExchange", "ATOMICEXCHANGE">>, <<"MemoryBarrier", "MEMORYBARRIER">>,
     <<"CompilerFence", "COMPILERFENCE">>, <<"CacheInvalidate", "CACHEINVALIDATE">>,
     <<"CacheFlush", "CACHEFLUSH">>, <<"TLBInvalidate", "TLBINVALIDATE">>,
     <<"TLBFlush", "TLBFLUSH">>, <<"PageTable", "PAGETABLE">>,
     <<"PhysicalMemory", "PHYSICALMEMORY">>, <<"InlineAssembly", "INLINEASSEMBLY">>,
     <<"Assembly", "ASSEMBLY">>, <<"Volatile", "VOLATILE">>, <<"Barrier", "BARRIER">>,
     <<"SystemCall", "SYSTEMCALL">>, <<"PrivilegeLevel", "PRIVILEGELEVEL">>,
     <<"TaskSwitch", "TASKSWITCH">>, <<"ProcessContext", "PROCESSCONTEXT">>,
     <<"DeviceDriver", "DEVICEDRIVER">>, <<"DeviceRegister", "DEVICEREGISTER">>,
     <<"DMAOperation", "DMAOPERATION">>, <<"MMIORead", "MMIOREAD">>, <<"MMIOWrite", "MMIOWRITE">>,
     <<"DeviceInterrupt", "DEVICEINTERRUPT">>, <<"Bootloader", "BOOTLOADER">>,
     <<"KernelEntry", "KERNELENTRY">>, <<"Initialization", "INITIALIZATION">>,
     <<"GlobalConstructors", "GLOBALCONSTRUCTORS">>, <<"GlobalDestructors", "GLOBALDESTRUCTORS">>,
     <<"Byte", "BYTE">>, <<"Word", "WORD">>, <<"DWord", "DWORD">>, <<"QWord", "QWORD">>,
     <<"UInt8", "UINT8">>, <<"UInt16", "UINT16">>, <<"UInt32", "UINT32">>, <<"UInt64", "UINT64">>,
     <<"Int8", "INT8">>, <<"Int16", "INT16">>, <<"Int32", "INT32">>, <<"Int64", "INT64">>,
     <<"VirtualMemory", "VIRTUALMEMORY">>, <<"MMIO", "MMIO">>, <<"Cache", "CACHE">>,
     <<"TLB", "TLB">>, <<"ReadOnly", "READONLY">>, <<"ReadWrite", "READWRITE">>,
     <<"ReadExecute", "READEXECUTE">>, <<"ReadWriteExecute", "READWRITEEXECUTE">>,
     <<"RO", "READONLY">>, <<"RW", "READWRITE">>, <<"RX", "READEXECUTE">>,
     <<"RWX", "READWRITEEXECUTE">>, <<"UserMode", "USERMODE">>, <<"KernelMode", "KERNELMODE">>,
     <<"Global", "GLOBAL">>, <<"Dirty", "DIRTY">>, <<"Accessed", "ACCESSED">>,
     <<"Cached", "CACHED">>, <<"Uncached", "UNCACHED">>, <<"WriteCombining", "WRITECOMBINING">>,
     <<"WriteThrough", "WRITETHROUGH">>, <<"WriteBack", "WRITEBACK">>, <<"L1", "L1CACHE">>,
     <<"L2", "L2CACHE">>, <<"L3", "L3CACHE">>, <<"4KB", "PAGESIZE4KB">>, <<"2MB", "PAGESIZE2MB">>,
     <<"1GB", "PAGESIZE1GB">>, <<"Invalidate", "INVALIDATE">>, <<"Flush", "FLUSH">>,
     <<"FlushAll", "FLUSHALL">>, <<"FlushGlobal", "FLUSHGLOBAL">>}

allowed_short_identifiers ==
    {"in", "to", "by", "of", "as", "is", "on", "at", "PI", "E", "GRP", "HW", "CFG", "MEM",
     "CPU", "SYS", "IO", "RG", "VG", "PG", "TG", "NG", "KG", "AG", "SG", "CG", "FG", "EAX",
     "EBX", "ECX", "EDX", "ESI", "EDI", "ESP", "EBP", "RAX", "RBX", "RCX", "RDX", "RSI", "RDI",
     "RSP", "RBP", "R8", "R9", "R10", "R11", "R12", "R13", "R14", "R15", "CS", "DS", "ES", "FS",
     "GS", "SS", "CR0", "CR1", "CR2", "CR3", "CR4", "CR8", "DR0", "DR1", "DR2", "DR3", "DR6",
     "DR7"}

\* self.keywords.get(value, TokenType.IDENTIFIER)
KeywordType(value) ==
    IF \E kw \in keywords : kw[1] = value
    THEN (CHOOSE kw \in keywords : kw[1] = value)[2]
    ELSE "IDENTIFIER"

\* single_char_tokens of tokenize, active copy
single_char_tokens ==
    {<<"=", "EQUALS">>, <<"{", "LBRACE">>, <<"}", "RBRACE">>, <<"(", "LPAREN">>,
     <<")", "RPAREN">>, <<"[", "LBRACKET">>, <<"]", "RBRACKET">>, <<",", "COMMA">>,
     <<":", "COLON">>, <<";", "SEMICOLON">>, <<".", "DOT">>, <<"-", "DASH">>,
     <<"+", "ADD">>, <<"*", "MULTIPLY">>, <<"/", "DIVIDE">>, <<"^", "POWER">>,
     <<">", "GREATERTHAN">>, <<"<", "LESSTHAN">>, <<"&", "AND">>, <<"|", "OR">>,
     <<"!", "NOT">>}

\* single_char_tokens of tokenize, holding copy
single_char_tokens_holding ==
    {<<"=", "EQUALS">>, <<"{", "LBRACE">>, <<"}", "RBRACE">>, <<"(", "LPAREN">>,
     <<")", "RPAREN">>, <<"[", "LBRACKET">>, <<"]", "RBRACKET">>, <<",", "COMMA">>,
     <<":", "COLON">>, <<";", "SEMICOLON">>, <<".", "DOT">>, <<"-", "DASH">>,
     <<"+", "PLUS">>, <<"*", "MULTIPLY">>, <<"/", "DIVIDE">>, <<"!", "EXCLAMATION">>}

SingleCharTable(lx) ==
    IF lx.copy = "holding" THEN single_char_tokens_holding ELSE single_char_tokens

\* the two-character operators of tokenize, in the order the elif chain tests them
two_char_tokens ==
    {<<"->", "ARROW_RIGHT">>, <<"<-", "ARROW_LEFT">>, <<">=", "GREATEREQUAL">>,
     <<"<=", "LESSEQUAL">>, <<"==", "EQUALTO">>, <<"!=", "NOTEQUAL">>,
     <<"&&", "AND">>, <<"||", "OR">>}

two_char_tokens_holding ==
    {<<"->", "ARROW">>, <<"<-", "LEFTARROW">>, <<"!=", "NOTEQUAL">>}

\* Lexer.__init__
NewLexer(copy, source, strict_mode) ==
    [copy |-> copy,
     source |-> source,
     position |-> 0,
     line |-> 1,
     column |-> 1,
     tokens |-> <<>>,
     strict_mode |-> strict_mode,
     diagnostics |-> <<>>,
     fusion_recognizer |-> NewRecognizer,
     \* tokenize()'s local col_start (-1: not yet assigned) and how the call stands
     col_start |-> -1,
     status |-> "scanning",
     error |-> [message |-> "", line |-> 0, column |-> 0],
     \* for each token, the source offsets where its text starts and where the cursor
     \* stood once it was read
     spans |-> <<>>]

\* Token(type, value, line, column, length)
Token(type, value, line, column, length) ==
    [type |-> type, value |-> value, line |-> line, column |-> column, length |-> length]

\* Lexer.error: raise LexerError(message, self.line, self.column)
error(lx, message) ==
    [lx EXCEPT !.status = "LexerError",
               !.error = [message |-> message, line |-> lx.line, column |-> lx.column]]

\* an exception of another kind leaving tokenize()
Raise(lx, kind, message) ==
    [lx EXCEPT !.status = kind,
               !.error = [message |-> message, line |-> lx.line, column |-> lx.column]]

\* Lexer.warning, were a warning to abort tokenize() as an error does
warning_that_aborts(lx, message) ==
    [lx EXCEPT !.status = "LexerError",
               !.error = [message |-> message, line |-> lx.line, column |-> lx.column]]

\* Lexer.warning: the active copy collects the warning, the holding copy only prints it
warning(lx, message) ==
    IF lx.copy = "holding" THEN lx
    ELSE [lx EXCEPT !.diagnostics = Append(@, [line |-> lx.line, column |-> lx.column,
                                               message |-> message, severity |-> 2])]

current_char(lx) ==
    IF lx.position >= Len(lx.source) THEN None
    ELSE CharAt(lx.source, lx.position + 1)

peek_char(lx, offset) ==
    IF lx.position + offset >= Len(lx.source) THEN None
    ELSE CharAt(lx.source, lx.position + offset + 1)

\* Lexer.advance; the holding copy's class body defines advance twice and the second
\* definition, which restarts the column at 0, is the one in force
advance(lx) ==
    IF lx.position < Len(lx.source)
    THEN IF CharAt(lx.source, lx.position + 1) = "\n"
         THEN [lx EXCEPT !.line = @ + 1,
                         !.column = IF lx.copy = "holding" THEN 0 ELSE 1,
                         !.position = @ + 1]
         ELSE [lx EXCEPT !.column = @ + 1, !.position = @ + 1]
    ELSE lx

RECURSIVE skip_whitespace(_)
skip_whitespace(lx) ==
    IF current_char(lx) \in {" ", "\t", "\r"} THEN skip_whitespace(advance(lx)) ELSE lx

\* the escapes read_string knows; NUL is written as the form feed, which no source holds
Escapes ==
    ("n" :> "\n") @@ ("t" :> "\t") @@ ("r" :> "\r") @@ ("\"" :> "\"")
        @@ ("\\" :> "\\") @@ ("0" :> "\f")

RECURSIVE read_string_loop(_, _)
\* the while loop of read_string
read_string_loop(lx, value) ==
    LET c == current_char(lx)
    IN  IF c = None \/ c = "\"" THEN [lx |-> lx, value |-> value]
        ELSE IF c = "\\"
        THEN LET l1 == advance(lx)
                 e == current_char(l1)
             IN  IF e = None
                 THEN [lx |-> error(l1, "Unterminated string escape"), value |-> value]
                 ELSE IF e \in DOMAIN Escapes
                 THEN read_string_loop(advance(l1), value \o Escapes[e])
                 ELSE read_string_loop(
                          advance(warning(l1, "Unknown escape sequence '\\" \o e \o "'")),
                          value \o e)
        ELSE read_string_loop(advance(lx), value \o c)

read_string(lx) ==
    LET r == read_string_loop(advance(lx), "")
    IN  IF r.lx.status # "scanning" THEN r
        ELSE IF current_char(r.lx) = "\""
        THEN [lx |-> advance(r.lx), value |-> r.value]
        ELSE [lx |-> error(r.lx, "Unterminated string literal"), value |-> r.value]

HexDigits ==
    "0123456789abcdef"

\* the value of one digit character (either case)
DigitVal(c) ==
    LET low == IF c \in UpperLetters
               THEN CharAt("abcdefghijklmnopqrstuvwxyz",
                           IndexOf("ABCDEFGHIJKLMNOPQRSTUVWXYZ", c))
               ELSE c
    IN  IndexOf(HexDigits, low) - 1

RECURSIVE ParseInt(_, _)
\* int(s, base) for a non-empty string of digits
ParseInt(s, base) ==
    IF Len(s) = 1 THEN DigitVal(s)
    ELSE ParseInt(SubSeq(s, 1, Len(s) - 1), base) * base + DigitVal(CharAt(s, Len(s)))

RECURSIVE IntStr(_)
\* str(n) for n >= 0
IntStr(n) ==
    IF n < 10 THEN CharAt("0123456789", n + 1)
    ELSE IntStr(n \div 10) \o CharAt("0123456789", (n % 10) + 1)

RECURSIVE StripLeadingZeros(_)
StripLeadingZeros(s) ==
    IF Len(s) > 1 /\ CharAt(s, 1) = "0" THEN StripLeadingZeros(Drop(s, 1)) ELSE s

RECURSIVE StripTrailingZeros(_)
StripTrailingZeros(s) ==
    IF Len(s) > 1 /\ CharAt(s, Len(s)) = "0"
    THEN StripTrailingZeros(SubSeq(s, 1, Len(s) - 1)) ELSE s

\* str(float(text)) for text = digits "." digits, of a value Python prints without an
\* exponent; a literal with an exponent keeps its text
FloatStr(text) ==
    IF Contains(text, "e") \/ Contains(text, "E") THEN text
    ELSE LET dot == IndexOf(text, ".")
             ip == StripLeadingZeros(SubSeq(text, 1, dot - 1))
             fp == Drop(text, dot)
         IN  ip \o "." \o (IF fp = "" THEN "0" ELSE StripTrailingZeros(fp))

RECURSIVE read_hex_loop(_, _)
\* the hexadecimal loop of read_number
read_hex_loop(lx, hex_value) ==
    LET c == current_char(lx)
    IN  IF c # None /\ (Contains("0123456789ABCDEFabcdef", c) \/ c = "_")
        THEN read_hex_loop(advance(lx), IF c # "_" THEN hex_value \o c ELSE hex_value)
        ELSE [lx |-> lx, value |-> hex_value]

RECURSIVE read_decimal_loop(_, _, _)
\* the first decimal loop of read_number: digits, one '.', and '_' separators
read_decimal_loop(lx, value, has_dot) ==
    LET c == current_char(lx)
    IN  IF c # None /\ (isdigit(c) \/ c \in {".", "_"})
        THEN IF c = "."
             THEN IF has_dot THEN [lx |-> lx, value |-> value, has_dot |-> has_dot]
                  ELSE read_decimal_loop(advance(lx), value \o ".", TRUE)
             ELSE read_decimal_loop(advance(lx),
                                    IF c # "_" THEN value \o c ELSE value, has_dot)
        ELSE [lx |-> lx, value |-> value, has_dot |-> has_dot]

RECURSIVE read_digits_loop(_, _)
\* the exponent's digit loop of read_number
read_digits_loop(lx, value) ==
    LET c == current_char(lx)
    IN  IF c # None /\ isdigit(c) THEN read_digits_loop(advance(lx), value \o c)
        ELSE [lx |-> lx, value |-> value]

\* the exponent part of read_number
read_exponent(lx, value) ==
    IF current_char(lx) \in {"e", "E"}
    THEN LET l1 == advance(lx)
             v1 == value \o current_char(lx)
         IN  IF current_char(l1) \in {"+", "-"}
             THEN read_digits_loop(advance(l1), v1 \o current_char(l1))
             ELSE read_digits_loop(l1, v1)
    ELSE [lx |-> lx, value |-> value]

\* read_number. The value of an int is its decimal text, of a float the text Python
\* prints for it. `None in 'xX'`, for a leading '0' that ends the source, is a TypeError.
read_number(lx) ==
    IF current_char(lx) = "0" /\ peek_char(lx, 1) = None
    THEN [lx |-> Raise(lx, "TypeError", "'in <string>' requires string as left operand"),
          value |-> ""]
    ELSE IF current_char(lx) = "0" /\ peek_char(lx, 1) \in {"x", "X"}
    THEN LET h == read_hex_loop(advance(advance(lx)), "")
         IN  IF h.value = ""
             THEN [lx |-> error(h.lx, "Invalid hexadecimal literal"), value |-> ""]
             ELSE [lx |-> h.lx, value |-> IntStr(ParseInt(h.value, 16))]
    ELSE LET d == read_decimal_loop(lx, "", FALSE)
             x == read_exponent(d.lx, d.value)
             is_float == d.has_dot \/ Contains(x.value, "e") \/ Contains(x.value, "E")
         IN  IF is_float
             THEN IF CharAt(x.value, Len(x.value)) \in {"e", "E", "+", "-"}
                  THEN [lx |-> error(x.lx, "Invalid number literal: " \o x.value),
                        value |-> ""]
                  ELSE [lx |-> x.lx, value |-> FloatStr(x.value)]
             ELSE [lx |-> x.lx, value |-> IntStr(ParseInt(x.value, 10))]

RECURSIVE read_word_loop(_, _)
\* while current_char() and (current_char().isalnum() or current_char() == '_')
read_word_loop(lx, value) ==
    LET c == current_char(lx)
    IN  IF c # None /\ (isalnum(c) \/ c = "_") THEN read_word_loop(advance(lx), value \o c)
        ELSE [lx |-> lx, value |-> value]

\* read_identifier (None.isalpha() at the end of the source is an AttributeError)
read_identifier(lx) ==
    IF current_char(lx) = None
    THEN [lx |-> Raise(lx, "AttributeError", "'NoneType' object has no attribute 'isalpha'"),
          value |-> ""]
    ELSE IF ~(isalpha(current_char(lx)) \/ current_char(lx) = "_")
    THEN [lx |-> error(lx, "Identifier must start with letter or underscore"), value |-> ""]
    ELSE LET w == read_word_loop(lx, "")
         IN  IF lx.strict_mode /\ Len(w.value) < 3 /\ w.value \notin allowed_short_identifiers
             THEN [lx |-> warning(w.lx, "Identifier '" \o w.value \o "' is short"),
                   value |-> w.value]
             ELSE w

RECURSIVE read_modifiers_loop(_, _)
\* the '+' loop of read_fused_identifier
read_modifiers_loop(lx, value) ==
    IF current_char(lx) = "+"
    THEN LET l1 == advance(lx)
         IN  IF ~(current_char(l1) # None /\ isalpha(current_char(l1)))
             THEN [lx |-> error(l1, "Expected modifier after '+' in fused type"),
                   value |-> value \o "+"]
             ELSE LET w == read_word_loop(l1, value \o "+")
                  IN  read_modifiers_loop(w.lx, w.value)
    ELSE [lx |-> lx, value |-> value]

\* read_fused_identifier
read_fused_identifier(lx) ==
    IF current_char(lx) = None
    THEN [lx |-> Raise(lx, "AttributeError", "'NoneType' object has no attribute 'isalpha'"),
          value |-> ""]
    ELSE IF ~(isalpha(current_char(lx)) \/ current_char(lx) = "_")
    THEN [lx |-> error(lx, "Identifier must start with letter or underscore"), value |-> ""]
    ELSE LET w == read_word_loop(lx, "")
         IN  read_modifiers_loop(w.lx, w.value)

RECURSIVE read_alpha_loop(_, _)
\* the prefix loop of read_comment
read_alpha_loop(lx, prefix) ==
    LET c == current_char(lx)
    IN  IF c # None /\ isalpha(c) THEN read_alpha_loop(advance(lx), prefix \o c)
        ELSE [lx |-> lx, value |-> prefix]

RECURSIVE skip_blanks(_)
\* while current_char() and current_char() in ' \t'
skip_blanks(lx) ==
    IF current_char(lx) \in {" ", "\t"} THEN skip_blanks(advance(lx)) ELSE lx

RECURSIVE read_bracketed_loop(_, _)
\* the DOC/COM loop of read_comment: up to the next '//', never reading the last character
read_bracketed_loop(lx, value) ==
    IF lx.position + 1 < Len(lx.source)
    THEN IF SubSeq(lx.source, lx.position + 1, lx.position + 2) = "//"
         THEN [lx |-> advance(advance(lx)), value |-> value]
         ELSE read_bracketed_loop(advance(lx), value \o current_char(lx))
    ELSE [lx |-> lx, value |-> value]

RECURSIVE read_line_loop_through_newline(_, _)
\* the end-of-line loop, were it to take the newline with the comment
read_line_loop_through_newline(lx, value) ==
    LET c == current_char(lx)
    IN  IF c = None THEN [lx |-> lx, value |-> value]
        ELSE IF c = "\n" THEN [lx |-> advance(lx), value |-> value \o c]
        ELSE read_line_loop_through_newline(advance(lx), value \o c)

RECURSIVE read_line_loop(_, _)
\* the plain/TAG loop of read_comment: to the end of the line
read_line_loop(lx, value) ==
    LET c == current_char(lx)
    IN  IF c # None /\ c # "\n" THEN read_line_loop(advance(lx), value \o c)
        ELSE [lx |-> lx, value |-> value]

WhitespaceChars ==
    {" ", "\t", "\n", "\r", "\f"}

RECURSIVE Strip(_)
\* str.strip()
Strip(s) ==
    IF s = "" THEN s
    ELSE IF CharAt(s, 1) \in WhitespaceChars THEN Strip(Drop(s, 1))
    ELSE IF CharAt(s, Len(s)) \in WhitespaceChars THEN Strip(SubSeq(s, 1, Len(s) - 1))
    ELSE s

\* the comment kind of a prefix
CommentType(prefix) ==
    IF prefix = "DOC" THEN "DOC_COMMENT"
    ELSE IF prefix = "COM" THEN "COM_COMMENT"
    ELSE IF prefix = "TAG" THEN "TAG_COMMENT"
    ELSE "COMMENT"

\* read_comment: the token type and the stripped text
read_comment(lx) ==
    IF peek_char(lx, 1) # "/"
    THEN [lx |-> error(lx, "Invalid comment start"), type |-> "COMMENT", value |-> ""]
    ELSE LET l2 == advance(advance(lx))
             p == IF current_char(l2) # None /\ isalpha(current_char(l2))
                  THEN read_alpha_loop(l2, "") ELSE [lx |-> l2, value |-> ""]
             comment_type == CommentType(p.value)
             \* a prefix that names no comment kind is un-read
             l3 == IF p.value # "" /\ comment_type = "COMMENT"
                   THEN [p.lx EXCEPT !.position = @ - Len(p.value),
                                     !.column = @ - Len(p.value)]
                   ELSE p.lx
             prefix == IF comment_type = "COMMENT" THEN "" ELSE p.value
             l4 == IF prefix # "" /\ current_char(l3) = ":" THEN advance(l3) ELSE l3
             l5 == skip_blanks(l4)
             body == IF comment_type \in {"DOC_COMMENT", "COM_COMMENT"}
                     THEN read_bracketed_loop(l5, "")
                     ELSE read_line_loop(l5, "")
         IN  [lx |-> body.lx, type |-> comment_type, value |-> Strip(body.value)]

\* Token(...) appended to self.tokens: the token starts where l0 stands, l1 is the lexer
\* once the token's text is read
Emit(l0, l1, type, value, length) ==
    [l1 EXCEPT !.tokens = Append(@, Token(type, value, l0.line, l0.column, length)),
               !.spans = Append(@, <<l0.position, l1.position>>)]

\* the head of tokenize's loop: skip_whitespace(), line_start/col_start assigned
LoopHead(lx) ==
    LET s == skip_whitespace(lx) IN [s EXCEPT !.col_start = s.column]

\* the loop of tokenize runs once more: the source is not exhausted, nor is it after
\* the blanks
InLoop(lx) ==
    /\ lx.status = "scanning"
    /\ lx.position < Len(lx.source)
    /\ current_char(skip_whitespace(lx)) # None

\* the operator of two or three characters at the cursor, <<>> if none
MultiCharToken(s) ==
    LET n == Len(s.source)
        p == s.position
        slice2 == SubSeq(s.source, p + 1, IF p + 2 <= n THEN p + 2 ELSE n)
        slice3 == SubSeq(s.source, p + 1, IF p + 3 <= n THEN p + 3 ELSE n)
    IN  IF s.copy = "holding"
        THEN IF \E t \in two_char_tokens_holding : t[1] = slice2
             THEN CHOOSE t \in two_char_tokens_holding : t[1] = slice2
             ELSE IF slice3 = "<->" THEN <<"<->", "BIDIRECTIONAL">> ELSE <<>>
        ELSE IF p + 2 < n /\ slice3 = "<->" THEN <<"<->", "ARROW_BIDIRECTIONAL">>
             ELSE IF p + 1 < n /\ \E t \in two_char_tokens : t[1] = slice2
             THEN CHOOSE t \in two_char_tokens : t[1] = slice2
             ELSE <<>>

\* the single-character token at the cursor, <<>> if none ('.' before a letter is none)
SingleCharToken(s) ==
    LET c == current_char(s)
    IN  IF /\ \E t \in SingleCharTable(s) : t[1] = c
           /\ ~(c = "." /\ peek_char(s, 1) # None /\ isalpha(peek_char(s, 1)))
        THEN CHOOSE t \in SingleCharTable(s) : t[1] = c
        ELSE <<>>

\* the branch of tokenize's loop body taken at s = LoopHead(lexer)
Branch(s) ==
    LET c == current_char(s)
    IN  IF c = "\n" THEN "newline"
        ELSE IF c = "/" /\ peek_char(s, 1) = "/" THEN "comment"
        ELSE IF c = "\"" THEN "string"
        ELSE IF isdigit(c) THEN "number"
        ELSE IF MultiCharToken(s) # <<>> THEN "operator"
        ELSE IF SingleCharToken(s) # <<>> THEN "single"
        ELSE IF isalpha(c) \/ c = "_" THEN "identifier"
        ELSE IF c = "." THEN "dot"
        ELSE "unknown"

RECURSIVE Advance(_, _)
\* n calls of advance()
Advance(lx, n) ==
    IF n = 0 THEN lx ELSE Advance(advance(lx), n - 1)

RECURSIVE read_dotted_parts(_, _)
\* the dotted continuation of an identifier: '.'.join(parts)
read_dotted_parts(lx, value) ==
    IF /\ current_char(lx) = "."
       /\ peek_char(lx, 1) # None
       /\ isalpha(peek_char(lx, 1))
    THEN LET r == read_identifier(advance(lx))
         IN  IF r.lx.status # "scanning" THEN [lx |-> r.lx, value |-> value]
             ELSE read_dotted_parts(r.lx, value \o "." \o r.value)
    ELSE [lx |-> lx, value |-> value]

\* what the identifier branch reads first: read_fused_identifier in the active copy,
\* read_identifier in the holding copy
ReadWord(s) ==
    IF s.copy = "holding" THEN read_identifier(s) ELSE read_fused_identifier(s)

\* the results is_valid_fusion_pattern can give for the word at the cursor
FusionOutcomes(s) ==
    IF s.copy = "holding" \/ ReadWord(s).lx.status # "scanning" THEN {FALSE}
    ELSE is_valid_fusion_pattern(s.fusion_recognizer, ReadWord(s).value)

\* the identifier branch, were the keyword lookup to come before the fusion test and the
\* result of the fusion test to be dropped
IdentifierBranch_without_fusion(s, fused) ==
    LET r == ReadWord(s)
        token_type == KeywordType(r.value)
    IN  IF r.lx.status # "scanning" THEN r.lx
        ELSE IF token_type # "IDENTIFIER"
        THEN Emit(s, r.lx, token_type, r.value, Len(r.value))
        ELSE LET d == read_dotted_parts(r.lx, r.value)
             IN  IF d.lx.status # "scanning" THEN d.lx
                 ELSE Emit(s, d.lx, "IDENTIFIER", d.value, Len(d.value))

\* the identifier branch of tokenize; get_fusion_components is called for printing only
IdentifierBranch(s, fused) ==
    LET r == ReadWord(s)
        token_type == KeywordType(r.value)
    IN  IF r.lx.status # "scanning" THEN r.lx
        ELSE IF fused THEN Emit(s, r.lx, "FUSEDTYPE", r.value, Len(r.value))
        ELSE IF token_type # "IDENTIFIER"
        THEN Emit(s, r.lx, token_type, r.value, Len(r.value))
        ELSE LET d == read_dotted_parts(r.lx, r.value)
             IN  IF d.lx.status # "scanning" THEN d.lx
                 ELSE Emit(s, d.lx, "IDENTIFIER", d.value, Len(d.value))

\* if self.current_char() == '\n'
ReadNewline ==
    /\ InLoop(lexer)
    /\ Branch(LoopHead(lexer)) = "newline"
    /\ lexer' = Emit(LoopHead(lexer), advance(LoopHead(lexer)), "NEWLINE", "\n", 1)
    /\ UNCHANGED <<fusion, parser, library_functions, suspended, published>>

\* if self.current_char() == '/' and self.peek_char() == '/'
ReadComment ==
    /\ InLoop(lexer)
    /\ Branch(LoopHead(lexer)) = "comment"
    /\ LET s == LoopHead(lexer)
           r == read_comment(s)
       IN  lexer' = IF r.lx.status # "scanning" THEN r.lx
                    ELSE Emit(s, r.lx, r.type, r.value,
                              IF s.copy = "holding" THEN Len(r.value) ELSE 1)
    /\ UNCHANGED <<fusion, parser, library_functions, suspended, published>>

\* if self.current_char() == '"'
ReadString ==
    /\ InLoop(lexer)
    /\ Branch(LoopHead(lexer)) = "string"
    /\ LET s == LoopHead(lexer)
           r == read_string(s)
       IN  lexer' = IF r.lx.status # "scanning" THEN r.lx
                    ELSE Emit(s, r.lx, "STRING", r.value,
                              IF s.copy = "holding" THEN Len(r.value) ELSE 1)
    /\ UNCHANGED <<fusion, parser, library_functions, suspended, published>>

\* if self.current_char().isdigit()
ReadNumber ==
    /\ InLoop(lexer)
    /\ Branch(LoopHead(lexer)) = "number"
    /\ LET s == LoopHead(lexer)
           r == read_number(s)
       IN  lexer' = IF r.lx.status # "scanning" THEN r.lx
                    ELSE Emit(s, r.lx, "NUMBER", r.value,
                              IF s.copy = "holding" THEN Len(r.value) ELSE 1)
    /\ UNCHANGED <<fusion, parser, library_functions, suspended, published>>

\* the three_char/two_char chain
ReadOperator ==
    /\ InLoop(lexer)
    /\ Branch(LoopHead(lexer)) = "operator"
    /\ LET s == LoopHead(lexer)
           t == MultiCharToken(s)
       IN  lexer' = Emit(s, Advance(s, Len(t[1])), t[2], t[1], Len(t[1]))
    /\ UNCHANGED <<fusion, parser, library_functions, suspended, published>>

\* if self.current_char() in single_char_tokens
ReadSingleChar ==
    /\ InLoop(lexer)
    /\ Branch(LoopHead(lexer)) = "single"
    /\ LET s == LoopHead(lexer)
           t == SingleCharToken(s)
       IN  lexer' = Emit(s, advance(s), t[2], t[1], 1)
    /\ UNCHANGED <<fusion, parser, library_functions, suspended, published>>

\* if self.current_char().isalpha() or self.current_char() == '_'
ReadIdentifier ==
    /\ InLoop(lexer)
    /\ Branch(LoopHead(lexer)) = "identifier"
    /\ \E fused \in FusionOutcomes(LoopHead(lexer)) :
           lexer' = IdentifierBranch(LoopHead(lexer), fused)
    /\ UNCHANGED <<fusion, parser, library_functions, suspended, published>>

\* the '.' before a letter, with no identifier before it
ReadDot ==
    /\ InLoop(lexer)
    /\ Branch(LoopHead(lexer)) = "dot"
    /\ lexer' = Emit(LoopHead(lexer), advance(LoopHead(lexer)), "DOT", ".", 1)
    /\ UNCHANGED <<fusion, parser, library_functions, suspended, published>>

\* self.error(f"Unknown character ...")
UnknownCharacter ==
    /\ InLoop(lexer)
    /\ Branch(LoopHead(lexer)) = "unknown"
    /\ lexer' = error(LoopHead(lexer),
                      "Unknown character '" \o current_char(LoopHead(lexer)) \o "'")
    /\ UNCHANGED <<fusion, parser, library_functions, suspended, published>>

\* the loop is left: the EOF token is appended and the tokens returned. The active copy
\* places EOF at the cursor; the holding copy at its local col_start, which is unbound
\* (UnboundLocalError) when no iteration assigned it
ReturnTokens ==
    /\ lexer.status = "scanning"
    /\ ~InLoop(lexer)
    /\ LET s == skip_whitespace(lexer)
       IN  lexer' =
               IF s.copy = "holding" /\ s.col_start = -1
               THEN Raise(s, "UnboundLocalError", "col_start")
               ELSE [s EXCEPT !.tokens = Append(@, Token("EOF", None, s.line,
                                  IF s.copy = "holding" THEN s.col_start ELSE s.column, 1)),
                              !.spans = Append(@, <<s.position, s.position>>),
                              !.status = "returned"]
    /\ UNCHANGED <<fusion, parser, library_functions, suspended, published>>

(***************************************************************************)
(* Parser                                                                  *)
(*                                                                         *)
(* The grammar rules are operators from a parser record to the record      *)
(* after the rule and the node it built.  Once an exception is raised      *)
(* (status leaves "parsing") every later operation leaves the record as it *)
(* is, which is how the exception reaches parse()'s caller.  The loops     *)
(* over the body of a declaration are run one iteration per step: `frames` *)
(* is the stack of the bodies being read, with their local variables.      *)
(***************************************************************************)

\* Python's None where a token is expected
NoToken ==
    Token("None", None, 0, 0, 0)

\* Python's None where a node is expected
NoNode ==
    [kind |-> "None"]

BINARY_OPERATORS ==
    {"ADD", "SUBTRACT", "MULTIPLY", "DIVIDE", "POWER", "GREATERTHAN", "LESSTHAN",
     "GREATEREQUAL", "LESSEQUAL", "EQUALTO", "NOTEQUAL", "AND", "OR", "DASH"}

\* Parser.__init__; `frames`, `status`, `result`, `error` hold where parse() stands
\* and how it ended, `skipped` the positions a body loop passed over with advance()
NewParser(tokens) ==
    [copy |-> "active",
     tokens |-> tokens,
     position |-> 0,
     current_token |-> IF tokens # <<>> THEN tokens[1] ELSE NoToken,
     strict_math |-> TRUE,
     context_stack |-> <<>>,
     frames |-> <<>>,
     status |-> "created",
     result |-> NoNode,
     error |-> [message |-> "", token |-> NoToken],
     skipped |-> {}]

\* no exception has been raised
Ok(p) ==
    p.status = "parsing"

push_context(p, context) ==
    IF Ok(p) THEN [p EXCEPT !.context_stack = Append(@, context)] ELSE p

\* pop_context, were it to leave the stack as it is
pop_context_forgotten(p) ==
    p

pop_context(p) ==
    IF Ok(p) /\ p.context_stack # <<>>
    THEN [p EXCEPT !.context_stack = SubSeq(@, 1, Len(@) - 1)]
    ELSE p

get_context(p) ==
    IF p.context_stack # <<>> THEN Join(p.context_stack, " > ") ELSE "top level"

\* Parser.error: raise ParseError(f"In {context}: {message}", self.current_token)
parser_error(p, message) ==
    IF Ok(p)
    THEN [p EXCEPT !.status = "ParseError",
                   !.error = [message |-> "In " \o get_context(p) \o ": " \o message,
                              token |-> p.current_token]]
    ELSE p

\* an exception that is no ParseError
parser_raise(p, kind, message) ==
    IF Ok(p)
    THEN [p EXCEPT !.status = kind,
                   !.error = [message |-> message, token |-> p.current_token]]
    ELSE p

\* a grammar rule this model does not follow: the parse is given up there and no
\* statement is made about its outcome
Unmodelled(p, rule) ==
    [p |-> parser_raise(p, "unmodelled", rule), node |-> NoNode]

\* Parser.advance, were it to step past the last token
parser_advance_past_end(p) ==
    IF Ok(p)
    THEN [p EXCEPT !.position = @ + 1,
                   !.current_token = IF p.position + 2 <= Len(p.tokens)
                                     THEN p.tokens[p.position + 2] ELSE NoToken]
    ELSE p

\* Parser.advance: stays on the last token
parser_advance(p) ==
    IF Ok(p) /\ p.position < Len(p.tokens) - 1
    THEN [p EXCEPT !.position = @ + 1, !.current_token = p.tokens[p.position + 2]]
    ELSE p

peek(p, offset) ==
    IF p.position + offset < Len(p.tokens) THEN p.tokens[p.position + offset + 1]
    ELSE NoToken

match(p, token_types) ==
    p.current_token # NoToken /\ p.current_token.type \in token_types

\* Parser.consume; the token consumed is p.current_token
consume(p, token_type) ==
    IF ~Ok(p) THEN p
    ELSE IF p.current_token = NoToken
    THEN parser_error(p, "Expected " \o token_type \o " but reached end of file. ")
    ELSE IF p.current_token.type # token_type
    THEN parser_error(p, "Expected " \o token_type \o ", got "
                             \o p.current_token.type \o ". ")
    ELSE parser_advance(p)

RECURSIVE skip_newlines(_)
\* Parser.skip_newlines. On a list whose last token is NEWLINE the loop of the code
\* would never end; the lists of this model end in EOF.
skip_newlines(p) ==
    IF Ok(p) /\ match(p, {"NEWLINE"}) /\ p.position < Len(p.tokens) - 1
    THEN skip_newlines(parser_advance(p))
    ELSE p

RECURSIVE dotted_name_loop(_, _)
\* the while loop of parse_dotted_name: parser.py consumes IDENTIFIER while standing on
\* DOT, libraryholding/parser.py consumes the DOT first
dotted_name_loop(p, parts) ==
    IF /\ Ok(p)
       /\ match(p, {"DOT"})
       /\ peek(p, 1) # NoToken
       /\ peek(p, 1).type = "IDENTIFIER"
    THEN IF p.copy = "holding"
         THEN dotted_name_loop(consume(consume(p, "DOT"), "IDENTIFIER"),
                               Append(parts, peek(p, 1).value))
         ELSE dotted_name_loop(consume(p, "IDENTIFIER"), Append(parts, p.current_token.value))
    ELSE [p |-> p, node |-> Join(parts, ".")]

parse_dotted_name(p) ==
    IF Ok(consume(p, "IDENTIFIER"))
    THEN dotted_name_loop(consume(p, "IDENTIFIER"), <<p.current_token.value>>)
    ELSE [p |-> consume(p, "IDENTIFIER"), node |-> ""]

\* Identifier(name=name, line=self.current_token.line, ...) for the name just read
Identifier(name) ==
    [p |-> name.p,
     node |-> [kind |-> "Identifier", name |-> name.node,
               line |-> name.p.current_token.line,
               column |-> name.p.current_token.column]]

parse_identifier(p) ==
    Identifier(parse_dotted_name(p))

\* the token types parse_strict_expression hands to parse_math_function,
\* parse_lowlevel_function and the fused-type rules
StrictExpressionCalls ==
    {"ADD", "MULTIPLY", "DIVIDE", "SUBTRACT", "POWER", "SQUAREROOT", "GREATERTHAN",
     "LESSTHAN", "EQUALTO", "NOTEQUAL", "GREATEREQUAL", "LESSEQUAL", "AND", "OR", "NOT",
     "READINPUT", "READINPUTNUMBER", "GETUSERCHOICE", "STRINGEQUALS", "STRINGCONTAINS",
     "STRINGCONCAT", "STRINGLENGTH", "STRINGTONUMBER", "NUMBERTOSTRING", "WRITETEXTFILE",
     "READTEXTFILE", "FILEEXISTS", "DEREFERENCE", "ADDRESSOF", "SIZEOF", "ALLOCATE",
     "DEALLOCATE", "MEMORYCOPY", "PORTREAD", "PORTWRITE", "HARDWAREREGISTER",
     "ATOMICREAD", "ATOMICWRITE", "MMIOREAD", "MMIOWRITE", "FUSEDTYPE"}

\* the token types parse_primary hands to another rule than those followed here
PrimaryCalls ==
    {"SQUAREROOT", "ABSOLUTEVALUE", "ADD", "MULTIPLY", "DIVIDE", "POWER", "MODULO",
     "FUSEDTYPE", "LAMBDA", "APPLY", "RUNTASK", "RUNMACRO", "LBRACKET", "LBRACE",
     "PI", "E", "PHI", "BYTES", "KILOBYTES", "MEGABYTES", "GIGABYTES", "SECONDS",
     "MILLISECONDS", "MICROSECONDS", "PERCENT", "BYTE", "WORD", "DWORD", "QWORD", "UINT8",
     "UINT16", "UINT32", "UINT64", "INT8", "INT16", "INT32", "INT64"}

\* UnaryExpression(operator='-', operand=operand, ...) at the minus sign `token`
UnaryExpression(token, operand) ==
    [p |-> operand.p,
     node |-> [kind |-> "UnaryExpression", operator |-> "-", operand |-> operand.node,
               line |-> token.line, column |-> token.column]]

RECURSIVE parse_parenthesized_expression(_)
RECURSIVE primary(_, _)
\* parse_primary after its skip_newlines(), standing on `token`
primary(p, token) ==
        IF ~Ok(p) THEN [p |-> p, node |-> NoNode]
        ELSE IF match(p, {"SUBTRACT", "DASH"})
        THEN IF match(parser_advance(p), {"NUMBER"})
             THEN [p |-> parser_advance(parser_advance(p)),
                   node |-> [kind |-> "Number",
                             value |-> "-" \o parser_advance(p).current_token.value,
                             line |-> token.line, column |-> token.column]]
             ELSE UnaryExpression(token,
                                  primary(skip_newlines(parser_advance(p)),
                                          skip_newlines(parser_advance(p)).current_token))
        ELSE IF match(p, PrimaryCalls) THEN Unmodelled(p, "parse_primary")
        ELSE IF match(p, {"NUMBER"})
        THEN [p |-> parser_advance(p),
              node |-> [kind |-> "Number", value |-> token.value,
                        line |-> token.line, column |-> token.column]]
        ELSE IF match(p, {"STRING"})
        THEN [p |-> parser_advance(p),
              node |-> [kind |-> "String", value |-> token.value,
                        line |-> token.line, column |-> token.column]]
        ELSE IF match(p, {"TRUE", "FALSE"})
        THEN [p |-> parser_advance(p),
              node |-> [kind |-> "Boolean", value |-> match(p, {"TRUE"}),
                        line |-> token.line, column |-> token.column]]
        ELSE IF match(p, {"NULL"})
        THEN [p |-> parser_advance(p),
              node |-> [kind |-> "Identifier", name |-> "Null",
                        line |-> token.line, column |-> token.column]]
        ELSE IF match(p, {"IDENTIFIER"}) THEN parse_identifier(p)
        ELSE IF match(p, {"LPAREN"}) THEN parse_parenthesized_expression(p)
        ELSE [p |-> parser_error(p, "Unexpected token in expression: " \o token.value),
              node |-> NoNode]

parse_primary(p) ==
    primary(skip_newlines(p), skip_newlines(p).current_token)

\* the namespace tokens of the VM operations and the prefix of their function name
VmNamespaces ==
    [PAGETABLE |-> "PageTable", VIRTUALMEMORY |-> "VirtualMemory", CACHE |-> "Cache",
     TLB |-> "TLB", MEMORYBARRIER |-> "MemoryBarrier"]

RECURSIVE parse_expression(_)

\* a parameter of a VM operation, read: String(value=param_name, ...) at the token
\* behind the value and the value are appended, a comma and newlines are passed
VmPair(a, param_name, value) ==
    [p |-> IF match(value.p, {"COMMA"})
           THEN skip_newlines(consume(value.p, "COMMA")) ELSE value.p,
     node |-> a.node \o <<[kind |-> "String", value |-> param_name,
                           line |-> value.p.current_token.line,
                           column |-> value.p.current_token.column],
                          value.node>>]

RECURSIVE vm_arguments(_)
\* while not self.match(TokenType.RPAREN): param_name, DASH, parse_expression()
vm_arguments(a) ==
    IF Ok(a.p) /\ ~match(a.p, {"RPAREN"})
    THEN vm_arguments(VmPair(a, a.p.current_token.value,
                             parse_expression(consume(consume(a.p, "IDENTIFIER"), "DASH"))))
    ELSE a

\* FunctionCall(function=function_name, arguments=arguments, ...) of a VM operation
VmCall(start_token, function_name, p, arguments) ==
    [p |-> p,
     node |-> [kind |-> "FunctionCall", function |-> function_name,
               arguments |-> arguments,
               line |-> start_token.line, column |-> start_token.column]]

\* consume_vm_operation_name: whatever the current token is, it is taken as the name
consume_vm_operation_name(p) ==
    [p |-> parser_advance(p), node |-> p.current_token.value]

\* the arguments in parentheses of a VM operation and its FunctionCall
vm_parenthesized(start_token, function_name, a) ==
    VmCall(start_token, function_name, consume(a.p, "RPAREN"), a.node)

\* parse_page_table_operation and its four siblings once the operation name is read;
\* TLB and MemoryBarrier take their parentheses only if there are any
vm_operation(start_token, operation) ==
    IF start_token.type \in {"TLB", "MEMORYBARRIER"} /\ ~match(operation.p, {"LPAREN"})
    THEN VmCall(start_token, VmNamespaces[start_token.type] \o "_" \o operation.node,
                operation.p, <<>>)
    ELSE vm_parenthesized(start_token,
                          VmNamespaces[start_token.type] \o "_" \o operation.node,
                          vm_arguments([p |-> consume(operation.p, "LPAREN"),
                                        node |-> <<>>]))

\* str(e) of the exception that left the parser in the state p
ExceptionText(p) ==
    IF p.status = "ParseError"
    THEN "Parse error at line " \o IntStr(p.error.token.line) \o ", column "
             \o IntStr(p.error.token.column) \o ": " \o p.error.message
    ELSE p.error.message

\* except Exception as e: self.error(f"Failed to parse VM operation: {str(e)}")
vm_except(r) ==
    IF r.p.status \in {"parsing", "diverged", "unmodelled"} THEN r
    ELSE [p |-> parser_error([r.p EXCEPT !.status = "parsing"],
                             "Failed to parse VM operation: " \o ExceptionText(r.p)),
          node |-> NoNode]

\* parse_vm_operation, standing on a namespace token
parse_vm_operation(p) ==
    vm_except(vm_operation(p.current_token, consume_vm_operation_name(parser_advance(p))))

\* parse_strict_expression after its skip_newlines()
strict_expression(p) ==
    IF ~Ok(p) THEN [p |-> p, node |-> NoNode]
    ELSE IF match(p, {"LPAREN"}) THEN parse_parenthesized_expression(p)
    ELSE IF match(p, StrictExpressionCalls) THEN Unmodelled(p, "parse_strict_expression")
    ELSE IF match(p, DOMAIN VmNamespaces) THEN parse_vm_operation(p)
    ELSE parse_primary(p)

parse_strict_expression(p) ==
    strict_expression(skip_newlines(p))

\* BinaryExpression(left=left, operator=op_token.value, right=right, ...), followed
\* by the skip_newlines() that ends the iteration
BinaryExpression(left, op_token, right) ==
    [p |-> skip_newlines(right.p),
     node |-> [kind |-> "BinaryExpression", left |-> left.node,
               operator |-> op_token.value, right |-> right.node,
               line |-> op_token.line, column |-> op_token.column]]

RECURSIVE expression_loop(_)
\* the loop of parse_expression over the binary operators at the top level
expression_loop(left) ==
    IF /\ Ok(left.p)
       /\ left.p.current_token # NoToken
       /\ left.p.current_token.type \in BINARY_OPERATORS
    THEN expression_loop(
             BinaryExpression(left, left.p.current_token,
                              parse_strict_expression(
                                  skip_newlines(parser_advance(left.p)))))
    ELSE left

\* the left operand, followed by skip_newlines()
LeftOperand(left) ==
    [p |-> skip_newlines(left.p), node |-> left.node]

parse_expression(p) ==
    expression_loop(LeftOperand(parse_strict_expression(skip_newlines(p))))

UNARY_OPERATORS ==
    {"SUBTRACT", "ADD", "NOT", "DASH"}

\* get_precedence: precedence_map.get(token_type, 0)
get_precedence(token_type) ==
    CASE token_type = "OR" -> 1
      [] token_type = "AND" -> 2
      [] token_type \in {"EQUALTO", "NOTEQUAL"} -> 3
      [] token_type \in {"LESSTHAN", "GREATERTHAN", "LESSEQUAL", "GREATEREQUAL"} -> 4
      [] token_type \in {"ADD", "SUBTRACT"} -> 5
      [] token_type \in {"MULTIPLY", "DIVIDE"} -> 6
      [] token_type = "POWER" -> 7
      [] OTHER -> 0

RECURSIVE parse_infix_binary(_, _)
RECURSIVE parse_infix_unary(_)

\* the grouped expression of parse_infix_unary: skip_newlines(), consume(RPAREN)
InfixGroup(expr) ==
    [p |-> consume(skip_newlines(expr.p), "RPAREN"), node |-> expr.node]

\* UnaryExpression(operator=op, operand=operand, ...) of parse_infix_unary
InfixUnaryExpression(op_token, operand) ==
    [p |-> operand.p,
     node |-> [kind |-> "UnaryExpression", operator |-> op_token.value,
               operand |-> operand.node,
               line |-> op_token.line, column |-> op_token.column]]

\* parse_infix_unary after its skip_newlines()
infix_unary(p) ==
    IF ~Ok(p) THEN [p |-> p, node |-> NoNode]
    ELSE IF p.current_token # NoToken /\ p.current_token.type \in UNARY_OPERATORS
    THEN InfixUnaryExpression(p.current_token, parse_infix_unary(parser_advance(p)))
    ELSE IF match(p, {"LPAREN"})
    THEN InfixGroup(parse_infix_binary(skip_newlines(parser_advance(p)), 0))
    ELSE parse_primary(p)

parse_infix_unary(p) ==
    infix_unary(skip_newlines(p))

RECURSIVE infix_loop(_, _)
\* the loop of parse_infix_binary: an operator of precedence >= min_precedence takes
\* as its right operand what parse_infix_binary(precedence + 1) reads
infix_loop(left, min_precedence) ==
    IF /\ Ok(left.p)
       /\ left.p.current_token # NoToken
       /\ left.p.current_token.type \in BINARY_OPERATORS
       /\ get_precedence(left.p.current_token.type) >= min_precedence
    THEN infix_loop(
             BinaryExpression(left, left.p.current_token,
                              parse_infix_binary(
                                  skip_newlines(parser_advance(left.p)),
                                  get_precedence(left.p.current_token.type) + 1)),
             min_precedence)
    ELSE left

parse_infix_binary(p, min_precedence) ==
    infix_loop(parse_infix_unary(p), min_precedence)

RECURSIVE infix_scan(_, _, _)
\* the look-ahead of parse_parenthesized_expression through nested parentheses;
\* inner_pos is an index of Python, from 0
infix_scan(p, inner_pos, depth) ==
    IF inner_pos < Len(p.tokens) /\ depth > 0
    THEN IF p.tokens[inner_pos + 1].type = "LPAREN" THEN infix_scan(p, inner_pos + 1, depth + 1)
         ELSE IF p.tokens[inner_pos + 1].type = "RPAREN"
         THEN infix_scan(p, inner_pos + 1, depth - 1)
         ELSE IF /\ depth = 1
                 /\ p.tokens[inner_pos + 1].type \in {"NUMBER", "IDENTIFIER", "SUBTRACT"}
                 /\ inner_pos + 1 < Len(p.tokens)
                 /\ p.tokens[inner_pos + 2].type \in BINARY_OPERATORS
         THEN TRUE
         ELSE infix_scan(p, inner_pos + 1, depth)
    ELSE FALSE

\* is_infix of parse_parenthesized_expression, standing behind the opening parenthesis
is_infix(p) ==
    IF match(p, {"LPAREN"}) THEN infix_scan(p, p.position + 1, 1)
    ELSE IF match(p, {"SUBTRACT"})
    THEN peek(p, 2) # NoToken /\ peek(p, 2).type \in BINARY_OPERATORS
    ELSE IF match(p, {"NUMBER", "IDENTIFIER"})
    THEN peek(p, 1) # NoToken /\ peek(p, 1).type \in BINARY_OPERATORS
    ELSE FALSE

\* ParenthesizedExpression(expression=expr, ...) after skip_newlines(), consume(RPAREN)
ParenthesizedExpression(start_token, expr) ==
    [p |-> consume(skip_newlines(expr.p), "RPAREN"),
     node |-> [kind |-> "ParenthesizedExpression", expression |-> expr.node,
               line |-> start_token.line, column |-> start_token.column]]

\* FunctionCall(function=op_name, arguments=[expr, second_operand], ...) after
\* skip_newlines(), consume(RPAREN)
InfixFunctionCall(start_token, op_token, expr, second_operand) ==
    [p |-> consume(skip_newlines(second_operand.p), "RPAREN"),
     node |-> [kind |-> "FunctionCall", function |-> op_token.value,
               arguments |-> <<expr.node, second_operand.node>>,
               line |-> start_token.line, column |-> start_token.column]]

\* the branch of parse_parenthesized_expression without an infix pattern, the inner
\* expression read; the position it resets to is the one it stands at
plain_parenthesized(start_token, expr) ==
    IF ~Ok(expr.p) THEN expr
    ELSE IF /\ expr.node.kind \in {"Number", "Identifier", "FunctionCall"}
            /\ match(expr.p, {"ADD", "MULTIPLY", "DIVIDE", "SUBTRACT", "POWER",
                              "GREATERTHAN", "LESSTHAN", "EQUALTO", "NOTEQUAL",
                              "GREATEREQUAL", "LESSEQUAL", "AND", "OR"})
    THEN InfixFunctionCall(start_token, expr.p.current_token, expr,
                           parse_expression(skip_newlines(parser_advance(expr.p))))
    ELSE [p |-> consume(expr.p, "RPAREN"), node |-> expr.node]

\* parse_parenthesized_expression behind the opening parenthesis `start_token`
parenthesized(p, start_token) ==
    IF ~Ok(p) THEN [p |-> p, node |-> NoNode]
    ELSE IF is_infix(p) THEN ParenthesizedExpression(start_token, parse_infix_binary(p, 0))
    ELSE plain_parenthesized(start_token, LeftOperand(parse_expression(p)))

parse_parenthesized_expression(p) ==
    parenthesized(skip_newlines(consume(p, "LPAREN")), p.current_token)

\* Assignment(target=target, value=value, line=self.current_token.line, ...)
Assignment(target, value) ==
    [p |-> value.p,
     node |-> [kind |-> "Assignment", target |-> target, value |-> value.node,
               line |-> value.p.current_token.line,
               column |-> value.p.current_token.column]]

parse_assignment(p) ==
    Assignment(p.current_token.value,
               parse_expression(consume(consume(p, "IDENTIFIER"), "EQUALS")))

RECURSIVE parse_statement(_)

\* the end of an iteration of a statement block: `if stmt: body.append(stmt)` and
\* skip_newlines(); block.node is the list read so far
BlockAppend(block, stmt) ==
    [p |-> skip_newlines(stmt.p),
     node |-> IF stmt.node = NoNode THEN block.node ELSE Append(block.node, stmt.node)]

RECURSIVE block_loop(_)
\* while not self.match(TokenType.RBRACE): stmt = self.parse_statement() ...
block_loop(block) ==
    IF Ok(block.p) /\ ~match(block.p, {"RBRACE"})
    THEN block_loop(BlockAppend(block, parse_statement(block.p)))
    ELSE block

\* a statement block from its opening brace on: consume(LBRACE), skip_newlines(),
\* push_context(context), the loop over the statements
StatementBlock(p, context) ==
    block_loop([p |-> push_context(skip_newlines(consume(p, "LBRACE")), context),
                node |-> <<>>])

\* the end of a statement block: consume(RBRACE), pop_context()
BlockEnd(block) ==
    pop_context(consume(block.p, "RBRACE"))

\* else_body once its block is read to the end: the list of its statements, as a
\* record to tell it from Python's None
ElseBody(block) ==
    [p |-> BlockEnd(block), node |-> [kind |-> "Block", statements |-> block.node]]

\* parse_printmessage, were it to leave the closing parenthesis unread
PrintMessage_without_rparen(start_token, message) ==
    [p |-> message.p,
     node |-> [kind |-> "PrintMessage", message |-> message.node,
               line |-> start_token.line, column |-> start_token.column]]

\* PrintMessage(message=message, ...) after consume(RPAREN)
PrintMessage(start_token, message) ==
    [p |-> consume(message.p, "RPAREN"),
     node |-> [kind |-> "PrintMessage", message |-> message.node,
               line |-> start_token.line, column |-> start_token.column]]

parse_printmessage(p) ==
    PrintMessage(p.current_token,
                 parse_expression(consume(consume(p, "PRINTMESSAGE"), "LPAREN")))

\* If(condition=..., then_body=..., else_body=..., ...)
If(start_token, condition, then_body, else_body) ==
    [p |-> else_body.p,
     node |-> [kind |-> "If", condition |-> condition.node, then_body |-> then_body.node,
               else_body |-> else_body.node,
               line |-> start_token.line, column |-> start_token.column]]

\* the ElseBlock of parse_if
ElseBlock(p) ==
    StatementBlock(skip_newlines(consume(p, "ELSEBLOCK")), "IfCondition.ElseBlock")

\* parse_if behind the ThenBlock, standing at p
if_else(p, start_token, condition, then_body) ==
    IF Ok(p) /\ match(p, {"ELSEBLOCK"})
    THEN If(start_token, condition, then_body, ElseBody(ElseBlock(p)))
    ELSE If(start_token, condition, then_body, [p |-> p, node |-> NoNode])

\* parse_if once the condition and the ThenBlock are read
if_then(start_token, condition, then_body) ==
    if_else(skip_newlines(BlockEnd(then_body)), start_token, condition, then_body)

\* parse_if once the condition is read
if_condition(start_token, condition) ==
    if_then(start_token, condition,
            StatementBlock(skip_newlines(consume(condition.p, "THENBLOCK")),
                           "IfCondition.ThenBlock"))

parse_if(p) ==
    if_condition(p.current_token, parse_expression(consume(p, "IFCONDITION")))

\* While(condition=condition, body=body, ...)
While(start_token, condition, body) ==
    [p |-> BlockEnd(body),
     node |-> [kind |-> "While", condition |-> condition.node, body |-> body.node,
               line |-> start_token.line, column |-> start_token.column]]

\* parse_while once the condition is read
while_condition(start_token, condition) ==
    While(start_token, condition, StatementBlock(skip_newlines(condition.p), "WhileLoop"))

parse_while(p) ==
    while_condition(p.current_token, parse_expression(consume(p, "WHILELOOP")))

\* the list a case or the default of parse_choosepath holds: `if stmt: append(stmt)`
CaseBody(stmt) ==
    IF stmt.node = NoNode THEN <<>> ELSE <<stmt.node>>

\* a CaseOption of parse_choosepath, read: cases.append((case_value, case_body))
CaseOption(c, case_value, stmt) ==
    [p |-> skip_newlines(stmt.p),
     cases |-> Append(c.cases, <<case_value, CaseBody(stmt)>>),
     default |-> c.default]

\* the DefaultOption of parse_choosepath, read
DefaultOption(c, stmt) ==
    [p |-> skip_newlines(stmt.p), cases |-> c.cases,
     default |-> [kind |-> "Block", statements |-> CaseBody(stmt)]]

\* `else: self.advance()` of parse_choosepath and the skip_newlines() that ends the
\* iteration; on the last token nothing moves and the loop runs for ever
ChooseOther(c) ==
    IF skip_newlines(parser_advance(c.p)) = c.p
    THEN [c EXCEPT !.p.status = "diverged"]
    ELSE [c EXCEPT !.p = skip_newlines(parser_advance(c.p))]

RECURSIVE choosepath_loop(_)
\* the loop of parse_choosepath over the cases, c holding p, cases and default
choosepath_loop(c) ==
    IF Ok(c.p) /\ ~match(c.p, {"RBRACE"})
    THEN IF match(c.p, {"CASEOPTION"})
         THEN choosepath_loop(
                  CaseOption(c, consume(c.p, "CASEOPTION").current_token.value,
                             parse_statement(consume(consume(consume(
                                 c.p, "CASEOPTION"), "STRING"), "COLON"))))
         ELSE IF match(c.p, {"DEFAULTOPTION"})
         THEN choosepath_loop(
                  DefaultOption(c, parse_statement(consume(consume(
                                       c.p, "DEFAULTOPTION"), "COLON"))))
         ELSE choosepath_loop(ChooseOther(c))
    ELSE c

\* ChoosePath(expression=..., cases=..., default=..., ...) after consume(RBRACE),
\* pop_context()
ChoosePath(start_token, expression, c) ==
    [p |-> pop_context(consume(c.p, "RBRACE")),
     node |-> [kind |-> "ChoosePath", expression |-> expression.node,
               cases |-> c.cases, default |-> c.default,
               line |-> start_token.line, column |-> start_token.column]]

\* parse_choosepath once the expression is read
choosepath_expression(start_token, expression) ==
    ChoosePath(start_token, expression,
               choosepath_loop(
                   [p |-> push_context(skip_newlines(consume(skip_newlines(
                              consume(expression.p, "RPAREN")), "LBRACE")), "ChoosePath"),
                    cases |-> <<>>, default |-> NoNode]))

parse_choosepath(p) ==
    choosepath_expression(p.current_token,
                          parse_expression(consume(consume(p, "CHOOSEPATH"), "LPAREN")))

\* a CatchError clause of parse_try, read to its closing brace:
\* catch_clauses.append((error_type, catch_body))
CatchClause(c, error_type, block) ==
    [p |-> skip_newlines(BlockEnd(block)),
     clauses |-> Append(c.clauses, <<error_type, block.node>>)]

RECURSIVE catch_loop(_)
\* while self.match(TokenType.CATCHERROR), c holding p and the clauses read so far
catch_loop(c) ==
    IF Ok(c.p) /\ match(c.p, {"CATCHERROR"})
    THEN catch_loop(
             CatchClause(c, consume(c.p, "CATCHERROR").current_token.value,
                         StatementBlock(
                             skip_newlines(consume(consume(c.p, "CATCHERROR"), "IDENTIFIER")),
                             "CatchError." \o consume(c.p, "CATCHERROR").current_token.value)))
    ELSE c

\* Try(body=body, catch_clauses=catch_clauses, finally_body=finally_body, ...)
Try(start_token, body, c, finally_body) ==
    [p |-> finally_body.p,
     node |-> [kind |-> "Try", body |-> body.node, catch_clauses |-> c.clauses,
               finally_body |-> finally_body.node,
               line |-> start_token.line, column |-> start_token.column]]

\* parse_try behind the catch clauses: the FinallyBlock, if there is one
try_finally(start_token, body, c) ==
    IF Ok(c.p) /\ match(c.p, {"FINALLYBLOCK"})
    THEN Try(start_token, body, c,
             ElseBody(StatementBlock(
                          skip_newlines(consume(consume(c.p, "FINALLYBLOCK"), "COLON")),
                          "FinallyBlock")))
    ELSE Try(start_token, body, c, [p |-> c.p, node |-> NoNode])

\* parse_try once the TryBlock is read up to its closing brace
try_body(start_token, body) ==
    try_finally(start_token, body,
                catch_loop([p |-> skip_newlines(BlockEnd(body)), clauses |-> <<>>]))

parse_try(p) ==
    try_body(p.current_token,
             StatementBlock(skip_newlines(consume(consume(p, "TRYBLOCK"), "COLON")),
                            "TryBlock"))

\* the token types parse_statement hands to a rule of their own that is not followed
StatementCalls ==
    {"RUNTASK", "RETURNVALUE",
     "FOREVERY", "SENDMESSAGE", "RECEIVEMESSAGE", "EVERYINTERVAL",
     "WITHSECURITY", "BREAKLOOP", "CONTINUELOOP", "HALTPROGRAM", "ENABLEINTERRUPTS",
     "DISABLEINTERRUPTS", "INLINEASSEMBLY", "SYSTEMCALL", "FUSEDTYPE"}

CommentTypes ==
    {"COMMENT", "DOC_COMMENT", "COM_COMMENT", "TAG_COMMENT"}

\* parse_statement after its skip_newlines(); a node of kind "None" is Python's None
statement(p) ==
    IF ~Ok(p) THEN [p |-> p, node |-> NoNode]
    ELSE IF match(p, CommentTypes) THEN [p |-> parser_advance(p), node |-> NoNode]
    ELSE IF peek(p, 1).type \in {"ARROW_LEFT", "ARROW_RIGHT", "ARROW_BIDIRECTIONAL"}
            \/ match(p, StatementCalls)
    THEN Unmodelled(p, "parse_statement")
    ELSE IF match(p, {"PRINTMESSAGE"}) THEN parse_printmessage(p)
    ELSE IF match(p, {"IFCONDITION"}) THEN parse_if(p)
    ELSE IF match(p, {"CHOOSEPATH"}) THEN parse_choosepath(p)
    ELSE IF match(p, {"WHILELOOP"}) THEN parse_while(p)
    ELSE IF match(p, {"TRYBLOCK"}) THEN parse_try(p)
    ELSE IF match(p, DOMAIN VmNamespaces) THEN parse_vm_operation(p)
    ELSE IF match(p, {"IDENTIFIER"}) /\ peek(p, 1).type = "EQUALS"
    THEN parse_assignment(p)
    ELSE parse_expression(p)

parse_statement(p) ==
    statement(skip_newlines(p))

\* the token types of the simple types of parse_type
SimpleTypes ==
    {"INTEGER", "FLOATINGPOINT", "TEXT", "BOOLEAN", "ADDRESS", "VOID", "ANY", "BYTE",
     "WORD", "DWORD", "QWORD", "UINT8", "UINT16", "UINT32", "UINT64", "INT8", "INT16",
     "INT32", "INT64"}

\* the token types parse_type hands to a rule not followed here
TypeCalls ==
    {"POINTER", "ARRAY", "MAP", "TUPLE", "RECORD", "OPTIONALTYPE"}

\* parse_function_type: once `Function [` is consumed, the loop condition reads
\* TokenType.ARROW, a name the TokenType enum of lexer.py does not have, and the
\* AttributeError leaves the parser; nothing after it is ever run
parse_function_type(p) ==
    [p |-> parser_raise(consume(consume(p, "FUNCTION"), "LBRACKET"),
                        "AttributeError", "ARROW"),
     node |-> NoNode]

\* TypeExpression(base_type=..., line=..., column=...) at `token`
TypeExpression(p, base_type, token) ==
    [p |-> p,
     node |-> [kind |-> "TypeExpression", base_type |-> base_type, parameters |-> <<>>,
               constraints |-> NoNode, line |-> token.line, column |-> token.column]]

\* TypeExpression(base_type=name, line=self.current_token.line, ...) for the dotted
\* name just read
NamedType(name) ==
    TypeExpression(name.p, name.node, name.p.current_token)

\* the end of parse_constrained_type and parse_constrained_type_expr: the closing
\* brace and the node, a ConstrainedType declaration or a TypeExpression
Constrained(kind, start_token, name, base_type, constraints) ==
    [p |-> consume(constraints.p, "RBRACE"),
     node |-> IF kind = "ConstrainedType"
              THEN [kind |-> "ConstrainedType", name |-> name,
                    base_type |-> base_type.node, constraints |-> constraints.node,
                    line |-> start_token.line, column |-> start_token.column]
              ELSE [kind |-> "TypeExpression", base_type |-> "ConstrainedType",
                    parameters |-> <<base_type.node>>,
                    constraints |-> constraints.node,
                    line |-> start_token.line, column |-> start_token.column]]

\* Where { constraints } after the base type
Constraints(kind, start_token, name, base_type) ==
    Constrained(kind, start_token, name, base_type,
                parse_expression(consume(consume(base_type.p, "WHERE"), "LBRACE")))

RECURSIVE parse_type(_)
parse_type(p) ==
    IF ~Ok(p) THEN [p |-> p, node |-> NoNode]
    ELSE IF match(p, SimpleTypes)
    THEN TypeExpression(parser_advance(p), p.current_token.value, p.current_token)
    ELSE IF match(p, TypeCalls) THEN Unmodelled(p, "parse_type")
    ELSE IF match(p, {"FUNCTION"}) THEN parse_function_type(p)
    ELSE IF match(p, {"CONSTRAINEDTYPE"})
    THEN \* parse_constrained_type_expr
         Constraints("TypeExpression", p.current_token, "",
                     parse_type(consume(consume(consume(p, "CONSTRAINEDTYPE"),
                                                "IDENTIFIER"), "EQUALS")))
    ELSE IF match(p, {"IDENTIFIER"}) THEN NamedType(parse_dotted_name(p))
    ELSE [p |-> parser_error(p, "Expected type expression"), node |-> NoNode]

parse_constrained_type(p) ==
    Constraints("ConstrainedType", p.current_token,
                consume(p, "CONSTRAINEDTYPE").current_token.value,
                parse_type(consume(consume(consume(p, "CONSTRAINEDTYPE"),
                                           "IDENTIFIER"), "EQUALS")))

\* Constant(name=name, value=value, line=start_token.line, ...)
Constant(start_token, name, value) ==
    [p |-> value.p,
     node |-> [kind |-> "Constant", name |-> name, value |-> value.node,
               line |-> start_token.line, column |-> start_token.column]]

parse_constant(p) ==
    Constant(p.current_token, consume(p, "CONSTANT").current_token.value,
             parse_expression(consume(consume(consume(p, "CONSTANT"), "IDENTIFIER"),
                                      "EQUALS")))

\* the end of parse_resource_item: the attribute list after a comma is not followed
ResourceItem(key, value) ==
    IF Ok(value.p) /\ match(value.p, {"COMMA"})
    THEN Unmodelled(value.p, "parse_resource_item")
    ELSE [p |-> value.p,
          node |-> [kind |-> "ResourceItem", key |-> key, value |-> value.node,
                    line |-> value.p.current_token.line,
                    column |-> value.p.current_token.column]]

\* the value of a resource item: Initialize-primary, or None
resource_value(p) ==
    IF match(p, {"INITIALIZE"})
    THEN parse_primary(consume(consume(p, "INITIALIZE"), "DASH"))
    ELSE [p |-> p, node |-> NoNode]

\* parse_resource_item: "key": [Initialize-value]
parse_resource_item(p) ==
    ResourceItem(p.current_token.value,
                 resource_value(consume(consume(p, "STRING"), "COLON")))

PoolTypes ==
    {"FIXEDPOOL", "DYNAMICPOOL", "TEMPORALPOOL", "NEURALPOOL", "KERNELPOOL", "ACTORPOOL",
     "SECURITYPOOL", "CONSTRAINEDPOOL", "FILEPOOL"}

\* the token types parse_declaration hands to a rule not followed here
DeclarationCalls ==
    {"LIBRARYIMPORT", "LOOPMAIN", "LOOPACTOR", "LOOPSTART", "LOOPSHADOW", "SUBROUTINE",
     "COMBINATOR", "MACROBLOCK", "SECURITYCONTEXT", "INTERRUPTHANDLER", "DEVICEDRIVER",
     "BOOTLOADER", "KERNELENTRY"}

\* the else branch of parse_declaration once the statement is read
top_level_statement(stmt) ==
    IF Ok(stmt.p) /\ stmt.node = NoNode /\ stmt.p.current_token # NoToken
    THEN [p |-> parser_error(stmt.p, "Unexpected token '" \o stmt.p.current_token.value
                                         \o "' at top level"),
          node |-> NoNode]
    ELSE stmt

\* parse_declaration, but for parse_pool and parse_function, whose bodies are read
\* step by step; of libraryholding/parser.py only parse_function is followed
parse_declaration(p) ==
    IF \/ p.copy = "holding"
       \/ match(p, DeclarationCalls)
       \/ (match(p, {"IDENTIFIER"}) /\ p.current_token.value = "AcronymDefinitions")
    THEN Unmodelled(p, "parse_declaration")
    ELSE IF match(p, {"CONSTRAINEDTYPE"}) THEN parse_constrained_type(p)
    ELSE IF match(p, {"CONSTANT"}) THEN parse_constant(p)
    ELSE top_level_statement(parse_statement(p))

\* the local variables of a rule whose body loop is being run
Frame(rule, token, name) ==
    [rule |-> rule, token |-> token, name |-> name, body |-> <<>>]

TopFrame(p) ==
    p.frames[Len(p.frames)]

\* the value a rule returns reaches the loop that called it: it is appended to that
\* loop's list (parse() keeps only a declaration that is not None) and the iteration
\* ends with skip_newlines()
Deliver(r) ==
    IF ~Ok(r.p) THEN r.p
    ELSE skip_newlines([r.p EXCEPT !.frames[Len(r.p.frames)].body =
                                       IF r.node = NoNode THEN @ ELSE Append(@, r.node)])

\* the frame on top is popped: the rule returns
PopFrame(p) ==
    [p EXCEPT !.frames = SubSeq(@, 1, Len(@) - 1)]

\* a new frame for a rule whose header has been read
PushFrame(p, frame) ==
    IF Ok(p) THEN [p EXCEPT !.frames = Append(@, frame)] ELSE p

\* the body loop's `else: self.advance()`: the token is passed over
SkipToken(p) ==
    IF parser_advance(p) = p THEN p
    ELSE [parser_advance(p) EXCEPT !.skipped = @ \cup {p.position}]

\* the header of parse_pool, up to the loop over the body
PoolHeader(p) ==
    LET pool_type_token == p.current_token
        p1 == push_context(parser_advance(p), pool_type_token.value)
        p2 == skip_newlines(consume(skip_newlines(consume(p1, "IDENTIFIER")), "LBRACE"))
    IN  IF p.copy = "holding" THEN Unmodelled(p, "parse_pool").p
        ELSE PushFrame(p2, Frame("pool", pool_type_token, p1.current_token.value))

\* the header of parse_subpool
SubPoolHeader(p) ==
    LET p1 == consume(p, "SUBPOOL")
        p2 == push_context(consume(p1, "IDENTIFIER"),
                           "SubPool." \o p1.current_token.value)
        p3 == skip_newlines(consume(skip_newlines(p2), "LBRACE"))
    IN  PushFrame(p3, Frame("subpool", p.current_token, p1.current_token.value))

\* the header of parse_function once the name is read
FunctionNamed(start_token, name) ==
    PushFrame(skip_newlines(consume(skip_newlines(
                  push_context(name.p, "Function." \o name.node)), "LBRACE")),
              Frame("function", start_token, name.node))

\* the header of parse_function: libraryholding/parser.py consumes a DOT before the name
FunctionHeader(p) ==
    IF p.copy = "holding"
    THEN FunctionNamed(p.current_token,
                       parse_dotted_name(consume(consume(p, "FUNCTION"), "DOT")))
    ELSE FunctionNamed(p.current_token, parse_dotted_name(consume(p, "FUNCTION")))

\* one iteration of the body loop of parse_pool after its skip_newlines(), but for
\* a SubPool
PoolBody(p) ==
    IF match(p, {"STRING"}) THEN Deliver(parse_resource_item(p))
    ELSE skip_newlines(SkipToken(p))

\* items[item.key] = item: an item replaces the one of the same key
DeliverItem(r) ==
    IF ~Ok(r.p) THEN r.p
    ELSE skip_newlines([r.p EXCEPT !.frames[Len(r.p.frames)].body =
                                       Append(SelectSeq(@, LAMBDA i : i.key # r.node.key),
                                              r.node)])

\* one iteration of the body loop of parse_subpool after its skip_newlines()
SubPoolBody(p) ==
    IF match(p, {"STRING"}) THEN DeliverItem(parse_resource_item(p))
    ELSE skip_newlines(SkipToken(p))

\* the end of the Body: section of parse_function: consume(RBRACE); the statements
\* are in the function's list `body`, and the iteration ends with skip_newlines()
FunctionStatements(block) ==
    IF ~Ok(block.p) THEN block.p
    ELSE skip_newlines([consume(block.p, "RBRACE") EXCEPT
                            !.frames[Len(block.p.frames)].body = @ \o block.node])

\* one iteration of the body loop of parse_function after its skip_newlines(); the
\* Input: and Output: sections are not followed, nor the statements of
\* libraryholding/parser.py
FunctionBody(p) ==
    IF match(p, {"INPUT", "OUTPUT"}) \/ (p.copy = "holding" /\ match(p, {"BODY"}))
    THEN Unmodelled(p, "parse_function").p
    ELSE IF match(p, {"BODY"})
    THEN FunctionStatements(block_loop(
             [p |-> skip_newlines(consume(skip_newlines(
                        consume(consume(p, "BODY"), "COLON")), "LBRACE")),
              node |-> <<>>]))
    ELSE skip_newlines(SkipToken(p))

\* the Pool, SubPool or Function node of the body read
BodyNode(frame) ==
    IF frame.rule = "pool"
    THEN [kind |-> "Pool", pool_type |-> frame.token.value, name |-> frame.name,
          body |-> frame.body, line |-> frame.token.line, column |-> frame.token.column]
    ELSE IF frame.rule = "subpool"
    THEN [kind |-> "SubPool", name |-> frame.name, items |-> frame.body,
          line |-> frame.token.line, column |-> frame.token.column]
    ELSE [kind |-> "Function", name |-> frame.name, input_params |-> <<>>,
          output_type |-> NoNode, body |-> frame.body,
          line |-> frame.token.line, column |-> frame.token.column]

\* the end of parse_pool, parse_subpool or parse_function: the closing brace, the
\* context popped, the node built and returned to the calling loop
BodyEnd(p) ==
    Deliver([p |-> PopFrame(pop_context(consume(p, "RBRACE"))),
             node |-> BodyNode(TopFrame(p))])

\* library_functions[name] = func: a dict keeps its keys in the order of their first
\* assignment
dict_set(dict, name, func) ==
    IF \E i \in 1..Len(dict) : dict[i].name = name
    THEN [i \in 1..Len(dict) |-> IF dict[i].name = name
                                  THEN [name |-> name, func |-> func] ELSE dict[i]]
    ELSE Append(dict, [name |-> name, func |-> func])

\* what the end of a rule leaves in the module-level dict: parse_function of
\* libraryholding/parser.py stores the Function node under its name, parse_function of
\* parser.py and the pool rules store nothing
Registered(p, dict) ==
    IF p.copy = "holding" /\ TopFrame(p).rule = "function" /\ Ok(consume(p, "RBRACE"))
    THEN dict_set(dict, TopFrame(p).name, BodyNode(TopFrame(p)))
    ELSE dict

(***************************************************************************)
(* parse(), one loop iteration per step                                    *)
(***************************************************************************)

\* the rule whose loop is running
InRule(rule) ==
    /\ parser.status = "parsing"
    /\ parser.frames # <<>>
    /\ TopFrame(parser).rule = rule

\* a loop iteration that ends in the state it began in is repeated for ever: the
\* loop diverges and parse() neither returns nor raises
Iterate(p, q) ==
    IF q = p THEN [p EXCEPT !.status = "diverged"] ELSE q

\* parse() up to its loop
ParseStart ==
    /\ parser.status = "created"
    /\ parser' = PushFrame(skip_newlines(push_context(
                               [parser EXCEPT !.status = "parsing"], "program")),
                           Frame("parse", NoToken, ""))
    /\ UNCHANGED <<fusion, lexer, library_functions, suspended, published>>

\* the loop of parse() ends at EOF: return Program(declarations, 1, 1)
ParseReturn ==
    /\ InRule("parse")
    /\ match(skip_newlines(parser), {"EOF"})
    /\ parser' = [PopFrame(pop_context(skip_newlines(parser))) EXCEPT
                      !.status = "returned",
                      !.result = [kind |-> "Program",
                                  declarations |-> TopFrame(parser).body,
                                  line |-> 1, column |-> 1]]
    /\ UNCHANGED <<fusion, lexer, library_functions, suspended, published>>

\* a comment at the top level is passed over
ParseComment ==
    /\ InRule("parse")
    /\ match(skip_newlines(parser), CommentTypes)
    /\ parser' = Iterate(parser, parser_advance(skip_newlines(parser)))
    /\ UNCHANGED <<fusion, lexer, library_functions, suspended, published>>

\* a declaration or statement read in one piece
ParseDeclaration ==
    /\ InRule("parse")
    /\ ~match(skip_newlines(parser), {"EOF", "FUNCTION"} \cup CommentTypes \cup PoolTypes)
    /\ parser' = Iterate(parser, Deliver(parse_declaration(skip_newlines(parser))))
    /\ UNCHANGED <<fusion, lexer, library_functions, suspended, published>>

\* parse_declaration calls parse_pool
EnterPool ==
    /\ InRule("parse")
    /\ match(skip_newlines(parser), PoolTypes)
    /\ parser' = PoolHeader(skip_newlines(parser))
    /\ UNCHANGED <<fusion, lexer, library_functions, suspended, published>>

\* parse_declaration calls parse_function
EnterFunction ==
    /\ InRule("parse")
    /\ match(skip_newlines(parser), {"FUNCTION"})
    /\ parser' = FunctionHeader(skip_newlines(parser))
    /\ UNCHANGED <<fusion, lexer, library_functions, suspended, published>>

\* the body loop of parse_pool calls parse_subpool
EnterSubPool ==
    /\ InRule("pool")
    /\ ~match(parser, {"RBRACE"})
    /\ match(skip_newlines(parser), {"SUBPOOL"})
    /\ parser' = SubPoolHeader(skip_newlines(parser))
    /\ UNCHANGED <<fusion, lexer, library_functions, suspended, published>>

PoolBodyStep ==
    /\ InRule("pool")
    /\ ~match(parser, {"RBRACE"})
    /\ ~match(skip_newlines(parser), {"SUBPOOL"})
    /\ parser' = Iterate(parser, PoolBody(skip_newlines(parser)))
    /\ UNCHANGED <<fusion, lexer, library_functions, suspended, published>>

SubPoolBodyStep ==
    /\ InRule("subpool")
    /\ ~match(parser, {"RBRACE"})
    /\ parser' = Iterate(parser, SubPoolBody(skip_newlines(parser)))
    /\ UNCHANGED <<fusion, lexer, library_functions, suspended, published>>

FunctionBodyStep ==
    /\ InRule("function")
    /\ ~match(parser, {"RBRACE"})
    /\ parser' = Iterate(parser, FunctionBody(skip_newlines(parser)))
    /\ UNCHANGED <<fusion, lexer, library_functions, suspended, published>>

\* a body loop ends at the closing brace
ExitBody ==
    /\ parser.status = "parsing"
    /\ parser.frames # <<>>
    /\ TopFrame(parser).rule \in {"pool", "subpool", "function"}
    /\ match(parser, {"RBRACE"})
    /\ parser' = BodyEnd(parser)
    /\ library_functions' = Registered(parser, library_functions)
    /\ UNCHANGED <<fusion, lexer, suspended, published>>

(***************************************************************************)
(* Specification of the lexer: tokenize() run on a source, by either copy  *)
(***************************************************************************)

\* the sources are made of at most MaxLexChunks pieces of text
MaxLexChunks ==
    3

LexChunks ==
    {"a", "0", "+", ".", "\n", "\"", "\\", "//", "//DOC", " ", "4KB", "in", "=", "AddInt8",
     "AddInt32+SIMD"}

LexSources ==
    {Concat(seq) : seq \in SeqsUpTo(LexChunks, MaxLexChunks)}

Copies ==
    {"active", "holding"}

\* the fusion harness and the parser before any use
IdleFusion ==
    [recognizer |-> NewRecognizer, identifier |-> "", results |-> <<>>,
     decompositions |-> <<>>]

IdleParser ==
    NewParser(<<Token("EOF", None, 1, 1, 0)>>)

\* no second pipeline
NoPipeline ==
    [lexer |-> NewLexer("active", "", TRUE), parser |-> IdleParser]

\* a lexer as ailang_server.py constructs it: Lexer(text), strict_mode left at True
LexInit ==
    /\ lexer \in {NewLexer(copy, source, TRUE) : copy \in Copies, source \in LexSources}
    /\ fusion = IdleFusion
    /\ parser = IdleParser
    /\ library_functions = <<>>
    /\ suspended = NoPipeline
    /\ published = <<>>

NextLex ==
    \/ ReadNewline
    \/ ReadComment
    \/ ReadString
    \/ ReadNumber
    \/ ReadOperator
    \/ ReadSingleChar
    \/ ReadIdentifier
    \/ ReadDot
    \/ UnknownCharacter
    \/ ReturnTokens

SpecLex ==
    LexInit /\ [][NextLex]_vars

LexDone ==
    lexer.status # "scanning"

(***************************************************************************)
(* Specification of the recognizer: a candidate identifier is given to     *)
(* is_valid_fusion_pattern and to get_fusion_components, several times     *)
(***************************************************************************)

\* a candidate is at most MaxBaseChunks pieces of base text followed by at most
\* MaxModifierChunks pieces of modifier text
MaxBaseChunks ==
    3

MaxModifierChunks ==
    3

\* how often each function is called on the candidate
MaxCalls ==
    2

BaseChunks ==
    {"Add", "U", "Int8", "TemporalPool"}

ModifierChunks ==
    {"+Fast", "+", "+x"}

FusionCandidates ==
    {Concat(b) \o Concat(m) : b \in SeqsUpTo(BaseChunks, MaxBaseChunks),
                              m \in SeqsUpTo(ModifierChunks, MaxModifierChunks)}

IdleLexer ==
    NewLexer("active", "", TRUE)

FusionInit ==
    /\ fusion \in {[recognizer |-> NewRecognizer, identifier |-> c, results |-> <<>>,
                    decompositions |-> <<>>] : c \in FusionCandidates}
    /\ lexer = IdleLexer
    /\ parser = IdleParser
    /\ library_functions = <<>>
    /\ suspended = NoPipeline
    /\ published = <<>>

\* recognizer.is_valid_fusion_pattern(identifier), the result kept
CallIsValidFusionPattern ==
    /\ Len(fusion.results) < MaxCalls
    /\ \E b \in is_valid_fusion_pattern(fusion.recognizer, fusion.identifier) :
           fusion' = [fusion EXCEPT !.results = Append(@, b)]
    /\ UNCHANGED <<lexer, parser, library_functions, suspended, published>>

\* recognizer.get_fusion_components(identifier), the result kept
CallGetFusionComponents ==
    /\ Len(fusion.results) = MaxCalls
    /\ Len(fusion.decompositions) < MaxCalls
    /\ \E d \in get_fusion_components(fusion.recognizer, fusion.identifier) :
           fusion' = [fusion EXCEPT !.decompositions = Append(@, d)]
    /\ UNCHANGED <<lexer, parser, library_functions, suspended, published>>

NextFusion ==
    \/ CallIsValidFusionPattern
    \/ CallGetFusionComponents

SpecFusion ==
    FusionInit /\ [][NextFusion]_vars

(***************************************************************************)
(* Specification of the parser: parse() run on a token list ending in EOF  *)
(***************************************************************************)

\* the token lists are made of at most MaxParseChunks pieces
MaxParseChunks ==
    4

ParseChunks ==
    {<<"FIXEDPOOL", "IDENTIFIER", "LBRACE">>, <<"SUBPOOL", "IDENTIFIER", "LBRACE">>,
     <<"FUNCTION", "IDENTIFIER", "LBRACE">>, <<"RBRACE">>, <<"NUMBER">>,
     <<"STRING", "COLON">>, <<"INITIALIZE", "DASH">>, <<"NEWLINE">>, <<"COMMENT">>,
     <<"CONSTRAINEDTYPE", "IDENTIFIER", "EQUALS">>, <<"FUNCTION", "LBRACKET">>,
     <<"CONSTANT", "IDENTIFIER", "EQUALS">>, <<"IDENTIFIER">>}

RECURSIVE ConcatSeqs(_)
ConcatSeqs(seq) ==
    IF seq = <<>> THEN <<>> ELSE Head(seq) \o ConcatSeqs(Tail(seq))

\* the value the lexer gives a token of the type
ValueOf(kind) ==
    CASE kind = "IDENTIFIER" -> "x"
      [] kind = "NUMBER" -> "1"
      [] kind = "STRING" -> "s"
      [] kind = "COMMENT" -> "c"
      [] kind = "NEWLINE" -> "\n"
      [] kind = "EOF" -> None
      [] kind = "FIXEDPOOL" -> "FixedPool"
      [] kind = "SUBPOOL" -> "SubPool"
      [] kind = "FUNCTION" -> "Function"
      [] kind = "CONSTRAINEDTYPE" -> "ConstrainedType"
      [] kind = "CONSTANT" -> "Constant"
      [] kind = "INITIALIZE" -> "Initialize"
      [] kind = "LBRACE" -> "{"
      [] kind = "RBRACE" -> "}"
      [] kind = "LBRACKET" -> "["
      [] kind = "COLON" -> ":"
      [] kind = "EQUALS" -> "="
      [] kind = "DASH" -> "-"

\* the tokens of the types, one per column of line 1, and the final EOF
TokenList(kinds) ==
    [i \in 1..(Len(kinds) + 1) |->
        IF i <= Len(kinds) THEN Token(kinds[i], ValueOf(kinds[i]), 1, i, 1)
        ELSE Token("EOF", None, 1, i, 0)]

TokenLists ==
    {TokenList(ConcatSeqs(seq)) : seq \in SeqsUpTo(ParseChunks, MaxParseChunks)}

ParseInit ==
    /\ parser \in {NewParser(tokens) : tokens \in TokenLists}
    /\ fusion = IdleFusion
    /\ lexer = IdleLexer
    /\ library_functions = <<>>
    /\ suspended = NoPipeline
    /\ published = <<>>

NextParse ==
    \/ ParseStart
    \/ ParseReturn
    \/ ParseComment
    \/ ParseDeclaration
    \/ EnterPool
    \/ EnterFunction
    \/ EnterSubPool
    \/ PoolBodyStep
    \/ SubPoolBodyStep
    \/ FunctionBodyStep
    \/ ExitBody

SpecParse ==
    ParseInit /\ [][NextParse]_vars

\* every token list of the specification stays within the rules followed here
ModelCovers ==
    parser.status # "unmodelled"

(***************************************************************************)
(* Specification of the pipeline of ailang_server.py: Lexer(text),         *)
(* tokenize(), Parser(tokens), parse(), with lexer.py and parser.py        *)
(***************************************************************************)

\* a source is at most MaxPipeChunks pieces of text
MaxPipeChunks ==
    2

PipeChunks ==
    {"Constant.Foo = 42\n", "(2 Multiply 3)", "2 Multiply 3", "(2 + 3)", "(a - b + c)",
     "(a - b == c)", "a + b * c", "a == b + c", "x = ",
     "IfCondition True ThenBlock { PrintMessage(\"x\")", "}", "\n", "ElseBlock {",
     "WhileLoop x {", "ChoosePath(x) {", "// c\n", "FixedPool P {\n\"k\": Initialize-1\n",
     "SubPool S {\nz\n}", "Function F {\n", "Body: {\n", "?", "PrintMessage(\"hi\")",
     "a", " .b", "a\n", "- b",
     "TryBlock: {\nx\n}", "CatchError Oops {}", "FinallyBlock: {}", "(x)",
     "PageTable.Create(level-4)", "TLB.FlushAll()", "PageTable Create(level-4)"}

PipeSources ==
    {Concat(seq) : seq \in SeqsUpTo(PipeChunks, MaxPipeChunks)}

\* no parser has been constructed yet
NoParser ==
    [IdleParser EXCEPT !.status = "absent"]

PipeInit ==
    /\ lexer \in {NewLexer("active", source, TRUE) : source \in PipeSources}
    /\ fusion = IdleFusion
    /\ parser = NoParser
    /\ library_functions = <<>>
    /\ suspended = NoPipeline
    /\ published = <<>>

\* parser = Parser(tokens), on the tokens tokenize() returned
ConstructParser ==
    /\ lexer.status = "returned"
    /\ parser.status = "absent"
    /\ parser' = [NewParser(lexer.tokens) EXCEPT !.copy = lexer.copy]
    /\ UNCHANGED <<fusion, lexer, library_functions, suspended, published>>

NextPipe ==
    \/ NextLex
    \/ ConstructParser
    \/ NextParse

SpecPipe ==
    PipeInit /\ [][NextPipe]_vars

(***************************************************************************)
(* Two pipelines in one process, each on its own Lexer and Parser          *)
(* instances and its own source, their steps interleaved as the threads of *)
(* a server that validates one file per thread; both pipelines use the     *)
(* modules of one directory                                                *)
(***************************************************************************)

\* a source of a pipeline is at most MaxSharedPieces pieces of text
MaxSharedPieces ==
    1

SharedPieces ==
    {"Function.F {\n}\n", "// c\nFunction.F {\n4 -> \"s\"\n}\n", "Function F {\n}\n",
     "FixedPool P {\n\"k\": Initialize-1\nSubPool S {\nz\n}}", "x\n", "?"}

SharedSources ==
    {Concat(seq) : seq \in SeqsUpTo(SharedPieces, MaxSharedPieces)}

\* both pipelines have constructed their Lexer; nothing is registered yet
SharedInit ==
    /\ \E copy \in Copies, first \in SharedSources, second \in SharedSources :
           /\ lexer = NewLexer(copy, first, TRUE)
           /\ suspended = [lexer |-> NewLexer(copy, second, TRUE), parser |-> NoParser]
           /\ published = <<>>
    /\ parser = NoParser
    /\ fusion = IdleFusion
    /\ library_functions = <<>>

\* the scheduler lets the other thread run: its Lexer and Parser become the running ones
Switch ==
    /\ lexer' = suspended.lexer
    /\ parser' = suspended.parser
    /\ suspended' = [lexer |-> lexer, parser |-> parser]
    /\ UNCHANGED <<fusion, library_functions, published>>

NextShared ==
    \/ NextPipe
    \/ Switch

SpecShared ==
    SharedInit /\ [][NextShared]_vars

\* the names in the module namespace of ailang_server.py: its imports and its own
\* definitions; `from parser import Parser` brings no other name of parser.py
ServerGlobals ==
    {"LanguageServer", "TextDocumentSyncKind", "InitializeParams", "CompletionParams",
     "Diagnostic", "CompletionItem", "CompletionItemKind", "Position", "Range",
     "DidOpenTextDocumentParams", "Lexer", "Parser", "re", "os", "json", "tempfile",
     "ailang_server", "did_open", "completions", "show_ast", "load_library_files", "main"}

\* the labels of the function suggestions of completions()
function_suggestions(globals, dict) ==
    IF "library_functions" \in globals THEN {dict[i].name : i \in 1..Len(dict)} ELSE {}

\* the labels completions() returns
completions(dict) ==
    {"PrintMessage", "IfCondition", "WhileLoop", "Function", "FixedPool", "PageTable",
     "VirtualMemory", "Integer", "FloatingPoint", "True", "False"}
    \cup {"Initialize", "CanChange", "CanBeNull", "Range", "MaximumLength"}
    \cup function_suggestions(ServerGlobals, dict)

(***************************************************************************)
(* One source tokenized twice, by a Lexer with strict_mode True and then   *)
(* by a Lexer with strict_mode False                                       *)
(***************************************************************************)

\* the pieces of the sources: those of the lexer runs, a string with an escape that
\* read_string does not know and a short segment of a dotted name
ModeChunks ==
    LexChunks \cup {"\"\\a\"", ".a"}

ModeSources ==
    {Concat(seq) : seq \in SeqsUpTo(ModeChunks, MaxLexChunks)}

\* Lexer(source, True) is about to run; Lexer(source, False) is constructed and waits
ModeInit ==
    /\ \E copy \in Copies, source \in ModeSources :
           /\ lexer = NewLexer(copy, source, TRUE)
           /\ suspended = [lexer |-> NewLexer(copy, source, FALSE), parser |-> IdleParser]
           /\ published = <<>>
    /\ parser = IdleParser
    /\ fusion = IdleFusion
    /\ library_functions = <<>>

\* the first tokenize() has returned or raised: the second Lexer runs
RunOtherMode ==
    /\ lexer.status # "scanning"
    /\ suspended.lexer.status = "scanning"
    /\ lexer' = suspended.lexer
    /\ suspended' = [suspended EXCEPT !.lexer = lexer]
    /\ UNCHANGED <<fusion, parser, library_functions, published>>

NextModes ==
    \/ NextLex
    \/ RunOtherMode

SpecModes ==
    ModeInit /\ [][NextModes]_vars

(***************************************************************************)
(* did_open of ailang_server.py: the pipeline run on the text of the       *)
(* document, followed by the one call of publish_diagnostics               *)
(***************************************************************************)

\* the least element of a non-empty set of numbers
Least(S) ==
    CHOOSE k \in S : \A j \in S : k <= j

\* str(e) of the exception that left tokenize()
LexerExceptionText(lx) ==
    IF lx.status = "LexerError"
    THEN "Lexer error at line " \o IntStr(lx.error.line) \o ", column "
             \o IntStr(lx.error.column) \o ": " \o lx.error.message
    ELSE lx.error.message

RECURSIVE DigitsAt(_, _)
\* the run of digits of the text that begins at index i
DigitsAt(text, i) ==
    IF i <= Len(text) /\ isdigit(CharAt(text, i))
    THEN CharAt(text, i) \o DigitsAt(text, i + 1)
    ELSE ""

\* the indices where the text holds the word, a blank and a digit
WordMatches(text, word) ==
    {i \in 1..(Len(text) - Len(word) - 1) :
        /\ SubSeq(text, i, i + Len(word)) = word \o " "
        /\ DigitsAt(text, i + Len(word) + 1) # ""}

\* line, column = 0, 0; match = re.search(r'<word> (\d+)', error_msg);
\* if match: int(match.group(1)) - 1
ExtractedCoordinate(text, word) ==
    IF WordMatches(text, word) = {} THEN 0
    ELSE ParseInt(DigitsAt(text, Least(WordMatches(text, word)) + Len(word) + 1), 10) - 1

\* the Diagnostic did_open builds from a warning of the lexer
WarningDiagnostic(w) ==
    [line |-> w.line - 1, character |-> w.column - 1,
     message |-> w.message, severity |-> w.severity]

\* the Diagnostic did_open builds in its except clause
ErrorDiagnostic(error_msg) ==
    [line |-> ExtractedCoordinate(error_msg, "line"),
     character |-> ExtractedCoordinate(error_msg, "column"),
     message |-> error_msg, severity |-> 1]

\* the warnings of the lexer as did_open appends them once tokenize() has returned
LexerWarnings(lx) ==
    [i \in 1..Len(lx.diagnostics) |-> WarningDiagnostic(lx.diagnostics[i])]

\* the list `diagnostics` of did_open when it reaches publish_diagnostics
Diagnostics(lx, p) ==
    IF lx.status # "returned" THEN <<ErrorDiagnostic(LexerExceptionText(lx))>>
    ELSE IF p.status = "returned" THEN LexerWarnings(lx)
    ELSE Append(LexerWarnings(lx), ErrorDiagnostic(ExceptionText(p)))

\* the try block of did_open is over: tokenize() raised, or parse() returned or raised
TryBlockOver ==
    \/ lexer.status \notin {"scanning", "returned"}
    \/ /\ lexer.status = "returned"
       /\ parser.status \notin {"absent", "created", "parsing", "diverged", "unmodelled"}

\* ls.publish_diagnostics(uri, diagnostics), the last statement of did_open
PublishDiagnostics ==
    /\ TryBlockOver
    /\ published = <<>>
    /\ published' = Append(published, Diagnostics(lexer, parser))
    /\ UNCHANGED <<fusion, lexer, parser, library_functions, suspended>>

NextServer ==
    \/ NextPipe
    \/ PublishDiagnostics

SpecServer ==
    PipeInit /\ [][NextServer]_vars

(***************************************************************************)
(* Claims about the type-fusion recognizer                                 *)
(***************************************************************************)

\* s.endswith(p)
EndsWith(s, p) ==
    /\ Len(p) <= Len(s)
    /\ SubSeq(s, Len(s) - Len(p) + 1, Len(s)) = p

\* the fused-type bases of the grammar: (PoolType "Pool" | Operation) DataType
GrammarBases ==
    {p \o t : p \in operations \cup {pt \o "Pool" : pt \in pool_types}, t \in types}

RECURSIVE InFusionGrammar(_, _)
\* x is a base of the grammar followed by at most n "+Modifier" suffixes
InFusionGrammar(x, n) ==
    \/ x \in GrammarBases
    \/ /\ n > 0
       /\ \E m \in NewRecognizer.all_modifiers :
              /\ EndsWith(x, "+" \o m)
              /\ InFusionGrammar(SubSeq(x, 1, Len(x) - Len(m) - 1), n - 1)

\* C9: is_valid_fusion_pattern(x) is true exactly when x is (PoolType "Pool" |
\* Operation) DataType followed by zero, one or two "+Modifier" suffixes, each
\* modifier a known one; an empty modifier or a trailing "+" is rejected.
C9_FusionPredicateIsGrammar ==
    \A i \in 1..Len(fusion.results) :
        fusion.results[i] = InFusionGrammar(fusion.identifier, 2)

\* the ways the grammar splits a base into (PoolType "Pool" | Operation) and DataType
BaseSplits(base) ==
    {<<p, t>> \in (operations \cup {pt \o "Pool" : pt \in pool_types}) \X types :
         p \o t = base}

\* C10: fusion matching is pure, total and deterministic: repeated calls on one
\* candidate give the same result and the same decomposition, whatever order the
\* sets are iterated in, and leave the recognizer as it was; whenever the predicate is
\* true the decomposition has pattern 'pool' or 'operation' and the base splits in
\* one way only into that head and a data type.
C10_FusionDeterministic ==
    /\ fusion.recognizer = NewRecognizer
    /\ \A i, j \in 1..Len(fusion.results) : fusion.results[i] = fusion.results[j]
    /\ \A i, j \in 1..Len(fusion.decompositions) :
           fusion.decompositions[i] = fusion.decompositions[j]
    /\ Cardinality(is_valid_fusion_pattern(fusion.recognizer, fusion.identifier)) = 1
    /\ Cardinality(get_fusion_components(fusion.recognizer, fusion.identifier)) = 1
    /\ \A i \in 1..Len(fusion.results), j \in 1..Len(fusion.decompositions) :
           fusion.results[i] =>
               LET d == fusion.decompositions[j]
               IN  /\ d.pattern \in {"pool", "operation"}
                   /\ d.data_type \in types
                   /\ d.pattern = "pool" =>
                          d.base = d.pool_type \o "Pool" \o d.data_type
                   /\ d.pattern = "operation" => d.base = d.operation \o d.data_type
                   /\ Cardinality(BaseSplits(d.base)) = 1

\* a candidate whose base could be cut after "Add" or after "AddU", accepted and
\* decomposed twice
C10_Witness ==
    /\ fusion.identifier = "AddUInt8+Fast"
    /\ Len(fusion.results) = MaxCalls
    /\ Len(fusion.decompositions) = MaxCalls
    /\ fusion.results[1]
    /\ fusion.decompositions[MaxCalls].operation = "Add"
    /\ fusion.decompositions[MaxCalls].data_type = "UInt8"

(***************************************************************************)
(* Claims about the lexer                                                  *)
(***************************************************************************)

\* C2: tokenize() ends in one of two ways, whatever the last character of the source
\* is: it returns the token list, or it raises LexerError carrying the cursor's line
\* and column; no other kind of exception escapes.
C2_TokenizeReturnsOrLexerError ==
    lexer.copy = "active" =>
        /\ lexer.status \in {"scanning", "returned", "LexerError"}
        /\ lexer.status = "LexerError" =>
               /\ lexer.error.line = lexer.line
               /\ lexer.error.column = lexer.column

\* the token types of the comments and strings, whose text may hold any character
TextTokenTypes ==
    {"STRING", "COMMENT", "DOC_COMMENT", "COM_COMMENT", "TAG_COMMENT"}

\* the 0-based offset p lies in the text of a token of one of the given types
InsideToken(lx, p, kinds) ==
    \E i \in 1..Len(lx.tokens) :
        /\ lx.tokens[i].type \in kinds
        /\ lx.spans[i][1] <= p
        /\ p < lx.spans[i][2]

NewlineTokens(lx) ==
    Cardinality({i \in 1..Len(lx.tokens) : lx.tokens[i].type = "NEWLINE"})

\* the number of NEWLINE tokens equals the number of '\n' characters of the source
C5_NewlinesAllCounted ==
    (lexer.copy = "active" /\ lexer.status = "returned") => NewlineTokens(lexer) = Count(lexer.source, "\n")

\* C5 (as amended): for every source that tokenizes successfully, the number of NEWLINE
\* tokens equals the number of '\n' characters of the source that lie outside the text
\* of its STRING, DOC_COMMENT and COM_COMMENT tokens; a newline inside a string literal
\* or a bracketed comment is part of that token and yields no NEWLINE token.
C5_NewlinesOutsideTextCounted ==
    (lexer.copy = "active" /\ lexer.status = "returned") =>
        NewlineTokens(lexer) =
            Cardinality({p \in 0..(Len(lexer.source) - 1) :
                /\ CharAt(lexer.source, p + 1) = "\n"
                /\ ~InsideToken(lexer, p, {"STRING", "DOC_COMMENT", "COM_COMMENT"})})

\* a DOC comment that took a newline, followed by a newline that became a token
C5_Witness ==
    /\ lexer.status = "returned"
    /\ lexer.copy = "active"
    /\ \E i \in 1..Len(lexer.tokens) :
           /\ lexer.tokens[i].type = "DOC_COMMENT"
           /\ \E p \in lexer.spans[i][1]..(lexer.spans[i][2] - 1) :
                  CharAt(lexer.source, p + 1) = "\n"
    /\ NewlineTokens(lexer) = 1

\* C6: in every token list tokenize() returns, each token (the final EOF included)
\* starts no earlier than the end of the token before it, the end being the start
\* column plus the length on the start line.
C6_PositionsMonotonic ==
    lexer.status = "returned" =>
        \A i \in 1..(Len(lexer.tokens) - 1) :
            LET t == lexer.tokens[i]
                u == lexer.tokens[i + 1]
            IN  \/ u.line > t.line
                \/ u.line = t.line /\ u.column >= t.column + t.length

KeywordKeys ==
    {kw[1] : kw \in keywords}

\* the character at the 1-based index i of s can continue a word (none does outside s)
IsWordCharAt(s, i) ==
    /\ 1 <= i
    /\ i <= Len(s)
    /\ (isalnum(CharAt(s, i)) \/ CharAt(s, i) = "_")

\* the keyword keys that occur in the source as words: <<start, end>>, 1-based, with
\* no word character on either side, outside the strings and comments
KeywordOccurrences(lx) ==
    {o \in (1..Len(lx.source)) \X (1..Len(lx.source)) :
        /\ o[1] <= o[2]
        /\ SubSeq(lx.source, o[1], o[2]) \in KeywordKeys
        /\ ~IsWordCharAt(lx.source, o[1] - 1)
        /\ ~IsWordCharAt(lx.source, o[2] + 1)
        /\ ~InsideToken(lx, o[1] - 1, TextTokenTypes)}

\* C7: every key of the keyword table that occurs in a source as a word is emitted as
\* one token of its mapped type, never as IDENTIFIER nor as part of another token,
\* whatever stands around it (a '.' before, a '+' after, a leading digit in the key).
C7_KeywordsExclusive ==
    (lexer.copy = "active" /\ lexer.status = "returned") =>
        \A o \in KeywordOccurrences(lexer) :
            \E i \in 1..Len(lexer.tokens) :
                /\ lexer.spans[i] = <<o[1] - 1, o[2]>>
                /\ lexer.tokens[i].value = SubSeq(lexer.source, o[1], o[2])
                /\ lexer.tokens[i].type = KeywordType(lexer.tokens[i].value)

\* the types of the tokens
TokenTypes(lx) ==
    [i \in 1..Len(lx.tokens) |-> lx.tokens[i].type]

\* C8: a '+'-extended candidate that is no fusion pattern is not emitted as one token:
\* no IDENTIFIER or keyword token has a value containing '+', and `a+a` and `a+0` lex
\* as identifier, ADD, operand.
C8_NoPlusInIdentifiers ==
    lexer.copy = "active" =>
        /\ \A i \in 1..Len(lexer.tokens) :
               (lexer.tokens[i].type = "IDENTIFIER"
                    \/ lexer.tokens[i].value \in KeywordKeys)
                   => ~Contains(lexer.tokens[i].value, "+")
        /\ (lexer.status # "scanning" /\ lexer.source = "a+a") =>
               /\ lexer.status = "returned"
               /\ TokenTypes(lexer) = <<"IDENTIFIER", "ADD", "IDENTIFIER", "EOF">>
        /\ (lexer.status # "scanning" /\ lexer.source = "a+0") =>
               /\ lexer.status = "returned"
               /\ TokenTypes(lexer) = <<"IDENTIFIER", "ADD", "NUMBER", "EOF">>

\* the text of the source that token i was read from
SpanText(lx, i) ==
    SubSeq(lx.source, lx.spans[i][1] + 1, lx.spans[i][2])

\* C11: the source AddInt32+SIMD tokenizes to exactly one FUSEDTYPE token followed by
\* EOF, the token's value is the whole text and its decomposition is pattern
\* 'operation', operation 'Add', data_type 'Int32', modifiers ['SIMD']; and for every
\* source, each '+'-extended identifier text the lexer reads and the fusion predicate
\* accepts is one FUSEDTYPE token whose value is that whole text.
C11_FusedTypeToken ==
    lexer.copy = "active" =>
        /\ lexer.source = "AddInt32+SIMD" =>
               /\ lexer.status \in {"scanning", "returned"}
               /\ lexer.status = "returned" =>
                      /\ [i \in 1..Len(lexer.tokens) |-> lexer.tokens[i].type]
                             = <<"FUSEDTYPE", "EOF">>
                      /\ lexer.tokens[1].value = "AddInt32+SIMD"
                      /\ get_fusion_components(lexer.fusion_recognizer, lexer.tokens[1].value)
                             = {[base |-> "AddInt32", modifiers |-> <<"SIMD">>,
                                 pattern |-> "operation", pool_type |-> "",
                                 operation |-> "Add", data_type |-> "Int32"]}
        /\ \A i \in 1..Len(lexer.tokens) :
               TRUE \in is_valid_fusion_pattern(lexer.fusion_recognizer, SpanText(lexer, i)) =>
                   /\ lexer.tokens[i].type = "FUSEDTYPE"
                   /\ lexer.tokens[i].value = SpanText(lexer, i)
                   /\ lexer.tokens[i].length = Len(SpanText(lexer, i))

\* AddInt32+SIMD has been tokenized by the active copy
C11_Witness ==
    /\ lexer.copy = "active"
    /\ lexer.status = "returned"
    /\ lexer.source = "AddInt32+SIMD"
    /\ lexer.tokens[1].type = "FUSEDTYPE"

\* the segments of a dotted name that the strict mode finds short
ShortSegments(value) ==
    {i \in 1..Len(Split(value, ".")) :
        /\ Len(Split(value, ".")[i]) < 3
        /\ Split(value, ".")[i] \notin allowed_short_identifiers}

RECURSIVE ShortIdentifiers(_)
\* how many identifier segments of a token list are short and not in the allow-list
ShortIdentifiers(tokens) ==
    IF tokens = <<>> THEN 0
    ELSE (IF Head(tokens).type = "IDENTIFIER"
          THEN Cardinality(ShortSegments(Head(tokens).value)) ELSE 0)
         + ShortIdentifiers(Tail(tokens))

\* C18: in strict mode every identifier read that is shorter than 3 characters and not
\* in the allow-list, standing alone or as the first or a later segment of a dotted
\* name, adds exactly one warning to Lexer.diagnostics and its token is still emitted:
\* after tokenize() of lexer.py the diagnostics are as many as the short identifier
\* segments of the tokens; `a` gives one IDENTIFIER token and one warning.
C18_ShortIdentifierWarnings ==
    (lexer.copy = "active" /\ lexer.strict_mode /\ lexer.status = "returned") =>
        /\ Len(lexer.diagnostics) = ShortIdentifiers(lexer.tokens)
        /\ lexer.source = "a" =>
               /\ TokenTypes(lexer) = <<"IDENTIFIER", "EOF">>
               /\ Len(lexer.diagnostics) = 1

\* the 0-based offsets at or after from where the source holds '//'
SlashesFrom(source, from) ==
    {k \in from..(Len(source) - 2) : SubSeq(source, k + 1, k + 2) = "//"}

\* C26: a DOC_COMMENT or COM_COMMENT is bracketed: its token covers the text from the
\* prefix up to the next '//' and lexing resumes just after that '//'; when the rest of
\* the source holds no further '//', the comment takes every remaining character, so the
\* next token emitted is EOF.
C26_BracketedComment ==
    (lexer.copy = "active" /\ lexer.status = "returned") =>
        \A i \in 1..Len(lexer.tokens) :
            lexer.tokens[i].type \in {"DOC_COMMENT", "COM_COMMENT"} =>
                IF SlashesFrom(lexer.source, lexer.spans[i][1] + 5) # {}
                THEN lexer.spans[i][2] =
                         Least(SlashesFrom(lexer.source, lexer.spans[i][1] + 5)) + 2
                ELSE /\ lexer.spans[i][2] = Len(lexer.source)
                     /\ lexer.tokens[i + 1].type = "EOF"

\* the lexer just after the '//' of the comment that begins at the head of the loop
AfterSlashes ==
    advance(advance(LoopHead(lexer)))

\* the alphabetic prefix read_comment reads after the '//'
PrefixRead ==
    IF current_char(AfterSlashes) # None /\ isalpha(current_char(AfterSlashes))
    THEN read_alpha_loop(AfterSlashes, "")
    ELSE [lx |-> AfterSlashes, value |-> ""]

\* read_comment un-reads the prefix in the iteration that begins now
UnReads ==
    /\ InLoop(lexer)
    /\ Branch(LoopHead(lexer)) = "comment"
    /\ PrefixRead.value # ""
    /\ CommentType(PrefixRead.value) = "COMMENT"

\* every iteration of tokenize's loop that leaves the lexer scanning has moved the cursor
\* forward, and an un-read goes back exactly to the position just after '//'
ScanningAdvances ==
    [][/\ (lexer.status = "scanning" /\ lexer'.status = "scanning") =>
              lexer'.position > lexer.position
       /\ UnReads =>
              /\ PrefixRead.lx.position - Len(PrefixRead.value) = AfterSlashes.position
              /\ PrefixRead.lx.column - Len(PrefixRead.value) = AfterSlashes.column
              /\ lexer'.position >= AfterSlashes.position]_lexer

\* C27: tokenize() always makes progress: each iteration of its main loop ends either
\* with a LexerError or with the cursor strictly further than where the iteration began,
\* even when read_comment un-reads an alphabetic prefix that is not DOC, COM or TAG; the
\* un-read moves the cursor back exactly len(prefix) characters, with the column reduced
\* by the same amount, to the position just after '//' and never before it.
C27_TokenizeProgress ==
    [][(lexer.copy = "active" /\ lexer.status = "scanning" /\ lexer'.status # "returned") =>
           /\ \/ lexer'.status = "LexerError"
              \/ lexer'.status = "scanning" /\ lexer'.position > lexer.position
           /\ UnReads =>
                  /\ PrefixRead.lx.position - Len(PrefixRead.value) = AfterSlashes.position
                  /\ PrefixRead.lx.column - Len(PrefixRead.value) = AfterSlashes.column
                  /\ lexer'.position >= AfterSlashes.position]_lexer

\* both runs of the source are over: the strict one is set aside, the other has ended
BothModesRan ==
    /\ lexer.status # "scanning"
    /\ suspended.lexer.status # "scanning"

\* the warnings of a lexer about escapes read_string does not know
EscapeWarnings(lx) ==
    SelectSeq(lx.diagnostics,
              LAMBDA d : SubSeq(d.message, 1, 23) = "Unknown escape sequence")

\* C28: warnings never change the outcome of tokenization: the run with strict_mode
\* true and the run with strict_mode false of one source end the same way, with the
\* same token list or the same error at the same position, and differ at most in the
\* diagnostics list; an unknown escape sequence inside a string adds a warning, keeps
\* the escaped character in the string value and still yields the STRING token.
C28_WarningsKeepOutcome ==
    /\ BothModesRan =>
           /\ lexer.strict_mode = FALSE /\ suspended.lexer.strict_mode = TRUE
           /\ lexer.status = suspended.lexer.status
           /\ lexer.tokens = suspended.lexer.tokens
           /\ lexer.error = suspended.lexer.error
           /\ lexer.position = suspended.lexer.position
           /\ EscapeWarnings(lexer) = EscapeWarnings(suspended.lexer)
    /\ (lexer.copy = "active" /\ lexer.source = "\"\\a\"" /\ lexer.status # "scanning") =>
           /\ lexer.status = "returned"
           /\ TokenTypes(lexer) = <<"STRING", "EOF">>
           /\ lexer.tokens[1].value = "a"
           /\ Len(EscapeWarnings(lexer)) = 1
           /\ EscapeWarnings(lexer)[1].severity = 2

\* both runs of a source with a short identifier and an unknown escape are over, and
\* only the strict run warned about the identifier
C28_Witness ==
    /\ BothModesRan
    /\ lexer.copy = "active"
    /\ lexer.source = "a.a\"\\a\""
    /\ lexer.status = "returned"
    /\ Len(suspended.lexer.diagnostics) = 2
    /\ Len(lexer.diagnostics) = 1

(***************************************************************************)
(* Claims about the parser                                                 *)
(***************************************************************************)

\* parse() has returned or raised
ParseDone ==
    parser.status \notin {"created", "parsing"}

\* C1: on every token list ending in EOF parse() terminates, by returning a Program
\* or raising ParseError: no body loop is left running for ever once the cursor has
\* reached EOF without the closing delimiter.
C1_ParseTerminates ==
    parser.status # "diverged"

\* C3: parsing is fail-fast: parse() never returns a Program after a body loop has
\* passed over a token that starts no construct allowed in that body.
C3_NoSkippedTokenInProgram ==
    parser.status = "returned" => parser.skipped = {}

\* C4: parse() ends by returning a Program or by raising ParseError, whose message
\* holds the context path and whose token gives the position; no other kind of
\* exception leaves a grammar rule.
C4_OnlyParseErrorEscapes ==
    /\ parser.status \in {"created", "parsing", "diverged", "returned", "ParseError"}
    /\ parser.status = "ParseError" =>
           /\ StartsWith(parser.error.message, "In program")
           /\ parser.error.token # NoToken
           /\ parser.error.token.line >= 1

(***************************************************************************)
(* Claims about the pipeline                                               *)
(***************************************************************************)

\* the types and the values of a token list
TypesOf(tokens) ==
    [i \in 1..Len(tokens) |-> tokens[i].type]

ValuesOf(tokens) ==
    [i \in 1..Len(tokens) |-> tokens[i].value]

RECURSIVE Shape(_)
\* the node without the lines and columns of it and of its descendants
Shape(node) ==
    IF node.kind \in {"Number", "String", "Boolean"}
    THEN [kind |-> node.kind, value |-> node.value]
    ELSE IF node.kind = "Identifier" THEN [kind |-> "Identifier", name |-> node.name]
    ELSE IF node.kind = "Constant"
    THEN [kind |-> "Constant", name |-> node.name, value |-> Shape(node.value)]
    ELSE IF node.kind = "Assignment"
    THEN [kind |-> "Assignment", target |-> node.target, value |-> Shape(node.value)]
    ELSE IF node.kind = "BinaryExpression"
    THEN [kind |-> "BinaryExpression", operator |-> node.operator,
          left |-> Shape(node.left), right |-> Shape(node.right)]
    ELSE IF node.kind = "ParenthesizedExpression"
    THEN [kind |-> "ParenthesizedExpression", expression |-> Shape(node.expression)]
    ELSE IF node.kind = "FunctionCall"
    THEN [kind |-> "FunctionCall", function |-> node.function,
          arguments |-> [i \in 1..Len(node.arguments) |-> Shape(node.arguments[i])]]
    ELSE IF node.kind = "Program"
    THEN [kind |-> "Program",
          declarations |-> [i \in 1..Len(node.declarations) |-> Shape(node.declarations[i])]]
    ELSE node

\* shapes of the nodes the claims name
Number(value) ==
    [kind |-> "Number", value |-> value]

Name(name) ==
    [kind |-> "Identifier", name |-> name]

Binary(operator, left, right) ==
    [kind |-> "BinaryExpression", operator |-> operator, left |-> left, right |-> right]

Call(function, first, second) ==
    [kind |-> "FunctionCall", function |-> function, arguments |-> <<first, second>>]

\* the expression a ParenthesizedExpression node wraps, any other shape as it is
Inner(shape) ==
    IF shape.kind = "ParenthesizedExpression" THEN shape.expression ELSE shape

\* tokenize() and parse() of the source raise nothing, and the Program parse() returns
\* has one declaration, which is the expression of the given shape (in parentheses
\* or not) or, where the source assigns, an Assignment of it
ParsesTo(source, shape) ==
    lexer.source = source =>
        /\ lexer.status \in {"scanning", "returned"}
        /\ parser.status \in {"absent", "created", "parsing", "returned"}
        /\ parser.status = "returned" =>
               /\ Len(parser.result.declarations) = 1
               /\ IF parser.result.declarations[1].kind = "Assignment"
                  THEN Inner(Shape(parser.result.declarations[1].value)) = shape
                  ELSE Inner(Shape(parser.result.declarations[1])) = shape

\* C12: the source `Constant.Foo = 42` followed by a newline tokenizes to exactly
\* [CONSTANT, DOT, IDENTIFIER("Foo"), EQUALS, NUMBER(42), NEWLINE, EOF], and parse() of
\* that token list returns a Program whose only declaration is
\* Constant(name "Foo", value Number(42)): neither step raises.
C12_ConstantScenario ==
    lexer.source = "Constant.Foo = 42\n" =>
        /\ lexer.status \in {"scanning", "returned"}
        /\ lexer.status = "returned" =>
               /\ TypesOf(lexer.tokens) = <<"CONSTANT", "DOT", "IDENTIFIER", "EQUALS",
                                            "NUMBER", "NEWLINE", "EOF">>
               /\ lexer.tokens[3].value = "Foo"
               /\ lexer.tokens[5].value = "42"
        /\ parser.status \in {"absent", "created", "parsing", "returned"}
        /\ parser.status = "returned" =>
               Shape(parser.result) =
                   [kind |-> "Program",
                    declarations |-> <<[kind |-> "Constant", name |-> "Foo",
                                        value |-> Number("42")]>>]

\* C13: `(2 Multiply 3)` and `2 Multiply 3` both parse to
\* FunctionCall(function "Multiply", arguments [Number(2), Number(3)]), and `(2 + 3)`
\* parses to BinaryExpression(operator "+", left Number(2), right Number(3)); each
\* surface form yields the same node kind where it is the value of an assignment.
C13_InfixSurfaceForms ==
    /\ ParsesTo("(2 Multiply 3)", Call("Multiply", Number("2"), Number("3")))
    /\ ParsesTo("2 Multiply 3", Call("Multiply", Number("2"), Number("3")))
    /\ ParsesTo("(2 + 3)", Binary("+", Number("2"), Number("3")))
    /\ ParsesTo("x = (2 Multiply 3)", Call("Multiply", Number("2"), Number("3")))
    /\ ParsesTo("x = 2 Multiply 3", Call("Multiply", Number("2"), Number("3")))
    /\ ParsesTo("x = (2 + 3)", Binary("+", Number("2"), Number("3")))

\* the contexts the statement blocks followed here push
StatementBlockContexts ==
    {"IfCondition.ThenBlock", "IfCondition.ElseBlock", "WhileLoop"}

\* parse() has ended, or runs for ever, within the rules followed here
PipeParseEnded ==
    parser.status \notin {"absent", "created", "parsing", "unmodelled"}

\* C14: parsing `IfCondition True ThenBlock { PrintMessage("x")`, which has no closing
\* brace, raises ParseError whose context path ends in IfCondition.ThenBlock and whose
\* token is the EOF token; and whenever parse() stands at EOF with a statement block
\* still open, it has raised ParseError at the EOF token with the open contexts as the
\* path of the message.
C14_OpenBlockRaisesAtEOF ==
    /\ (lexer.source = "IfCondition True ThenBlock { PrintMessage(\"x\")" /\ PipeParseEnded) =>
           /\ parser.status = "ParseError"
           /\ parser.error.token.type = "EOF"
           /\ StartsWith(parser.error.message, "In program > IfCondition.ThenBlock: ")
    /\ (/\ PipeParseEnded
        /\ parser.current_token.type = "EOF"
        /\ \E i \in 1..Len(parser.context_stack) :
               parser.context_stack[i] \in StatementBlockContexts) =>
           /\ parser.status = "ParseError"
           /\ parser.error.token.type = "EOF"
           /\ StartsWith(parser.error.message,
                         "In " \o Join(parser.context_stack, " > ") \o ": ")

\* C15: when parse() has ended, by returning or by raising ParseError, every context
\* pushed has been popped: the context stack is as deep as before parse() was called,
\* which is empty.
C15_ContextStackRestored ==
    parser.status \in {"returned", "ParseError"} => parser.context_stack = <<>>

\* C16: inside parentheses '+' and '-' share the additive level, which binds tighter
\* than equality, and are left-associative: `(a - b + c)` parses to
\* BinaryExpression(+, BinaryExpression(-, a, b), c) and `(a - b == c)` to
\* BinaryExpression(==, BinaryExpression(-, a, b), c).
C16_InfixPrecedence ==
    /\ ParsesTo("(a - b + c)", Binary("+", Binary("-", Name("a"), Name("b")), Name("c")))
    /\ ParsesTo("(a - b == c)", Binary("==", Binary("-", Name("a"), Name("b")), Name("c")))

\* C17: without enclosing parentheses the same precedence holds: `a + b * c` and
\* `a == b + c` parse to a tree whose root is the looser operator and whose right
\* child is the tighter one.
C17_TopLevelPrecedence ==
    /\ ParsesTo("a + b * c", Binary("+", Name("a"), Binary("*", Name("b"), Name("c"))))
    /\ ParsesTo("a == b + c", Binary("==", Name("a"), Binary("+", Name("b"), Name("c"))))

\* C22: the source `PrintMessage("hi")` parses to a Program with exactly one
\* declaration, the PrintMessage whose message is String("hi"), and parse() leaves the
\* cursor on the EOF token; neither tokenize() nor parse() raises.
C22_PrintMessageScenario ==
    lexer.source = "PrintMessage(\"hi\")" =>
        /\ lexer.status \in {"scanning", "returned"}
        /\ parser.status \in {"absent", "created", "parsing", "returned"}
        /\ parser.status = "returned" =>
               /\ Len(parser.result.declarations) = 1
               /\ parser.result.declarations[1].kind = "PrintMessage"
               /\ parser.result.declarations[1].message.kind = "String"
               /\ parser.result.declarations[1].message.value = "hi"
               /\ parser.position = Len(parser.tokens) - 1
               /\ parser.current_token.type = "EOF"

C22_Witness ==
    /\ lexer.source = "PrintMessage(\"hi\")"
    /\ parser.status = "returned"
    /\ parser.result.declarations # <<>>

\* a token list IDENTIFIER (DOT IDENTIFIER)^n followed by EOF
DottedRun(tokens) ==
    /\ Len(tokens) % 2 = 0
    /\ \A i \in 1..(Len(tokens) - 1) :
           tokens[i].type = (IF i % 2 = 1 THEN "IDENTIFIER" ELSE "DOT")

\* the values of the IDENTIFIER tokens of a dotted run
RunSegments(tokens) ==
    [i \in 1..(Len(tokens) \div 2) |-> tokens[2 * i - 1].value]

\* C23: parse_dotted_name, started on a token run IDENTIFIER (DOT IDENTIFIER)^n,
\* returns the n+1 identifier values joined by '.', consumes exactly those 2n+1 tokens
\* and raises nothing: a statement that is such a run and nothing else parses to the
\* one Identifier of that name, with the cursor on EOF.
C23_DottedNameRun ==
    (PipeParseEnded /\ DottedRun(parser.tokens)) =>
        /\ parser.status = "returned"
        /\ Len(parser.result.declarations) = 1
        /\ parser.result.declarations[1].kind = "Identifier"
        /\ parser.result.declarations[1].name = Join(RunSegments(parser.tokens), ".")
        /\ parser.position = Len(parser.tokens) - 1

\* the token list is a one-identifier line, a NEWLINE and a second line
TwoLines(tokens) ==
    /\ Len(tokens) >= 4
    /\ tokens[1].type = "IDENTIFIER"
    /\ tokens[2].type = "NEWLINE"
    /\ tokens[3].type \notin {"NEWLINE", "EOF"}

\* C25: a NEWLINE token ends the statement before it: when a one-identifier line is
\* followed by a NEWLINE and a second line (also one that begins with '-', '+' or another
\* operator token), the returned Program holds the Identifier of the first line as a node
\* of its own and a separate node for the second line.
C25_NewlineEndsStatement ==
    (parser.status = "returned" /\ TwoLines(parser.tokens)) =>
        /\ Len(parser.result.declarations) = 2
        /\ parser.result.declarations[1].kind = "Identifier"

\* C29: whenever parse() returns a Program, the context stack is empty and the cursor is
\* on the final EOF token: every push_context of the parse has been matched by one
\* pop_context, and no token before EOF is left unread.
C29_ReturnedBalanced ==
    parser.status = "returned" =>
        /\ parser.context_stack = <<>>
        /\ parser.position = Len(parser.tokens) - 1
        /\ parser.current_token = parser.tokens[Len(parser.tokens)]
        /\ parser.current_token.type = "EOF"
        /\ \A i \in 1..(Len(parser.tokens) - 1) : parser.tokens[i].type # "EOF"

\* parse() has returned a Try with a TryBlock of one statement and one CatchError clause
C29_Witness ==
    /\ parser.status = "returned"
    /\ lexer.source = "TryBlock: {\nx\n}CatchError Oops {}"
    /\ Len(parser.result.declarations) = 1
    /\ parser.result.declarations[1].kind = "Try"
    /\ Len(parser.result.declarations[1].body) = 1
    /\ Len(parser.result.declarations[1].catch_clauses) = 1
    /\ parser.context_stack = <<>>

\* position is an index of the token list and current_token is the token there
CursorInList(p) ==
    /\ p.position \in 0..(Len(p.tokens) - 1)
    /\ p.current_token = p.tokens[p.position + 1]

\* the parser with its cursor set on the token of index i
CursorAt(p, i) ==
    [p EXCEPT !.position = i, !.current_token = p.tokens[i + 1]]

\* C30: during parse() on a non-empty token list, 0 <= position <= len(tokens) - 1 and
\* current_token is tokens[position]; advance() from any token keeps the relation and on
\* the last token leaves both unchanged, and the (position, current_token) pair that
\* parse_parenthesized_expression saves behind an opening parenthesis and puts back
\* satisfies the same relation.
C30_CursorInvariant ==
    (parser.status # "absent" /\ parser.tokens # <<>>) =>
        /\ CursorInList(parser)
        /\ \A i \in 0..(Len(parser.tokens) - 1) :
               /\ CursorInList(parser_advance(CursorAt(parser, i)))
               /\ CursorInList(skip_newlines(consume(CursorAt(parser, i), "LPAREN")))
        /\ parser_advance(CursorAt(parser, Len(parser.tokens) - 1))
               = CursorAt(parser, Len(parser.tokens) - 1)

\* parse() has returned from a parenthesized expression read on the branch that puts
\* the saved cursor back, and stands on the last token
C30_Witness ==
    /\ lexer.source = "(x)"
    /\ parser.status = "returned"
    /\ parser.position = Len(parser.tokens) - 1
    /\ Len(parser.result.declarations) = 1
    /\ parser.result.declarations[1].kind = "Identifier"

\* VM operations in source form, with the function name and the parameters they denote
VmCases ==
    {[source |-> "PageTable.Create(level-4)", function |-> "PageTable_Create",
      params |-> <<<<"level", "4">>>>],
     [source |-> "TLB.FlushAll()", function |-> "TLB_FlushAll", params |-> <<>>]}

\* the node is the FunctionCall of the name with the parameters flattened to
\* String(p1), v1, ..., String(pn), vn
FlattenedCall(node, function, params) ==
    /\ node.kind = "FunctionCall"
    /\ node.function = function
    /\ Len(node.arguments) = 2 * Len(params)
    /\ \A i \in 1..Len(params) :
           /\ node.arguments[2 * i - 1].kind = "String"
           /\ node.arguments[2 * i - 1].value = params[i][1]
           /\ node.arguments[2 * i].kind = "Number"
           /\ node.arguments[2 * i].value = params[i][2]

\* C24: a VM operation written <Namespace>.<Operation>(p1-v1, ..., pn-vn) parses to one
\* FunctionCall whose function name is <Namespace>_<Operation> and whose argument list
\* has exactly 2n entries, alternating String(pi) and the parsed value vi in source order.
C24_VmOperationCall ==
    \A case \in VmCases :
        (lexer.source = case.source /\ PipeParseEnded) =>
            /\ parser.status = "returned"
            /\ Len(parser.result.declarations) = 1
            /\ FlattenedCall(parser.result.declarations[1], case.function, case.params)

\* written without the dot, the operation does parse to the flattened FunctionCall
SpacedVmCall ==
    (lexer.source = "PageTable Create(level-4)" /\ PipeParseEnded) =>
        /\ parser.status = "returned"
        /\ Len(parser.result.declarations) = 1
        /\ FlattenedCall(parser.result.declarations[1], "PageTable_Create",
                         <<<<"level", "4">>>>)

\* the error-severity entries of a published list
ErrorsOf(diagnostics) ==
    SelectSeq(diagnostics, LAMBDA d : d.severity = 1)

\* tokenize() or parse() raised
Raised ==
    lexer.status # "returned" \/ parser.status # "returned"

\* what did_open published is as the contract says: one error diagnostic at the
\* zero-based position of the error when tokenize or parse raised, none when both
\* succeeded, and then every warning of the lexer with warning severity
PublishedAsContract ==
    published # <<>> =>
        /\ Len(published) = 1
        /\ Raised =>
               /\ Len(ErrorsOf(published[1])) = 1
               /\ lexer.status = "LexerError" =>
                      /\ ErrorsOf(published[1])[1].line = lexer.error.line - 1
                      /\ ErrorsOf(published[1])[1].character = lexer.error.column - 1
               /\ (lexer.status = "returned" /\ parser.status = "ParseError") =>
                      /\ ErrorsOf(published[1])[1].line = parser.error.token.line - 1
                      /\ ErrorsOf(published[1])[1].character
                             = parser.error.token.column - 1
        /\ ~Raised =>
               /\ ErrorsOf(published[1]) = <<>>
               /\ Len(published[1]) = Len(lexer.diagnostics)
               /\ \A i \in 1..Len(published[1]) :
                      /\ published[1][i].severity = 2
                      /\ published[1][i].message = lexer.diagnostics[i].message
                      /\ published[1][i].line = lexer.diagnostics[i].line - 1

\* parse() is in a loop that never ends: did_open does not come to its last statement
HandlerNeverEnds ==
    lexer.status = "returned" /\ parser.status = "diverged"

\* C21: for every didOpen event the server publishes diagnostics exactly once: never
\* twice, and the handler does not get into a state from which publish_diagnostics is
\* never reached; the published list contains exactly one error-severity diagnostic
\* when tokenize or parse raised, placed at the zero-based (line-1, column-1) of the
\* reported error position, and zero error diagnostics when both succeeded; on success
\* every warning accumulated by the lexer is published with warning severity.
C21_PublishesOnce ==
    /\ Len(published) <= 1
    /\ ~HandlerNeverEnds
    /\ PublishedAsContract

(***************************************************************************)
(* Claims about the function table and about pipelines run side by side    *)
(***************************************************************************)

\* the step in which parse_function returns its Function node
FunctionReturns ==
    /\ parser.status = "parsing"
    /\ parser.frames # <<>>
    /\ TopFrame(parser).rule = "function"
    /\ match(parser, {"RBRACE"})
    /\ parser' = BodyEnd(parser)
    /\ Ok(parser')

\* the entries of a dict under the names other than `name`
OtherEntries(dict, name) ==
    {dict[i] : i \in {j \in 1..Len(dict) : dict[j].name # name}}

\* C19: when parse_function returns the Function node of a function named N, the
\* process-wide function table maps N to that node, replacing an earlier entry of that
\* name, the completion handler of the server lists N, and no other entry changes.
C19_FunctionRegistered ==
    [][FunctionReturns =>
           /\ \E i \in 1..Len(library_functions') :
                  library_functions'[i] = [name |-> TopFrame(parser).name,
                                           func |-> BodyNode(TopFrame(parser))]
           /\ Cardinality({i \in 1..Len(library_functions') :
                               library_functions'[i].name = TopFrame(parser).name}) = 1
           /\ TopFrame(parser).name \in completions(library_functions')
           /\ OtherEntries(library_functions', TopFrame(parser).name)
                  = OtherEntries(library_functions, TopFrame(parser).name)]_vars

\* the pipeline that is running
Running ==
    [lexer |-> lexer, parser |-> parser]

\* a pipeline has ended: tokenize() raised, or parse() returned or raised
PipelineEnded(pipeline) ==
    /\ pipeline.lexer.status # "scanning"
    /\ pipeline.lexer.status = "returned" =>
           pipeline.parser.status \notin {"absent", "created", "parsing"}

RECURSIVE TableOf(_, _)
\* the function table a pipeline that returned this list of declarations leaves when
\* it runs alone, starting from the table `dict`
TableOf(declarations, dict) ==
    IF declarations = <<>> THEN dict
    ELSE TableOf(Tail(declarations),
                 IF Head(declarations).kind = "Function"
                 THEN dict_set(dict, Head(declarations).name, Head(declarations))
                 ELSE dict)

\* the table a pipeline leaves when it runs alone and returns its Program
AloneTable(pipeline) ==
    IF pipeline.parser.copy = "holding" /\ pipeline.parser.status = "returned"
    THEN TableOf(pipeline.parser.result.declarations, <<>>)
    ELSE <<>>

\* C20: two pipelines on their own Lexer and Parser instances share no mutable state,
\* so that no shared structure ends in a state that depends on the interleaving: when
\* both pipelines have ended, under every interleaving of their steps, each pipeline
\* finds in the function table every entry that it leaves there when it runs alone.
C20_PipelinesIndependent ==
    (PipelineEnded(Running) /\ PipelineEnded(suspended)) =>
        \A pipeline \in {Running, suspended} :
            \A i \in 1..Len(AloneTable(pipeline)) :
                \E j \in 1..Len(library_functions) :
                    library_functions[j] = AloneTable(pipeline)[i]
====
